---- MODULE Spec2Model ----
(***************************************************************************)
(* fidelipy: the Driver facade over a Selenium WebDriver                    *)
(* (src/src/fidelipy/__init__.py).                                          *)
(*                                                                          *)
(* Strings that the code inspects (prompt responses, displayed prices, the  *)
(* limit price typed into the ticket) are sequences of one-character        *)
(* strings.  Every call on the browser or on a page element, and every      *)
(* input() prompt, is one "interaction": it either completes and is         *)
(* recorded in the call's event list as "ok", or it raises and is recorded  *)
(* as "raised".  Which interaction raises (if any), what the page shows and *)
(* what the user types are the environment's choice.  sleep(delay) has no   *)
(* effect on the state and is not an interaction.                           *)
(*                                                                          *)
(* Spec is the Driver used directly by a caller; MainSpec is the script     *)
(* runner of src/src/main.py driving the same Driver.                       *)
(***************************************************************************)
EXTENDS Integers, Sequences, FiniteSets, TLC

VARIABLES
    session,   \* "none" | "built" | "entered" | "exited": the Driver object / with-scope
    timeout,   \* Driver.__timeout
    delay,     \* Driver.__delay, in tenths of a second
    browser,   \* "open" | "closed": whether driver.quit() has completed
    nav,       \* the interactions of __enter__ / __exit__ of the current with statement
    call,      \* the arguments of the last method call
    out,       \* what the last method call did and how it ended
    main       \* the script runner (src/src/main.py): its position and local variables

vars == <<session, timeout, delay, browser, nav, call, out, main>>

-----------------------------------------------------------------------------
(* Bounds of the model. *)

MaxBuffer == 1      \* buffer arguments of marketable_limit_order are -1..MaxBuffer
MaxElements == 3    \* "number" elements in the quote blocks: 0..MaxElements
MaxItems == 2       \* entries of the mutual fund action dropdown: 0..MaxItems

(* Input samples. *)

TimeoutValues == {-1, 0, 1}
DelayValues == {-1, 0}
ActionValues == {"BUY", "SELL", "OTHER"}     \* "OTHER": any object that is no Action member
UnitValues == {"SHARES", "DOLLARS", "OTHER"} \* "OTHER": any object that is no Unit member

\* What the user may type at a [Y/n] prompt: nothing, a capital Y (which the
\* code lowers to y), n, or a word that begins with y.
Responses == { <<>>, <<"Y">>, <<"n">>, <<"y", "e", "s">> }

\* innerText of a bid/ask "number" element.
Displayed ==
    { <<"1", ".", "0", "0", "5">>,
      \* "$", no-break space, "1,000.09" with the zeros of the thousand as U+06F0
      <<"$", " ", "1", ",", "۰", "۰", "۰", ".", "0", "9">>,
      <<"-", "-">> }

\* Limit prices a caller passes to limit_order / gtc_order.
LimitArgs == { <<"1", ".", "0", "5">> }

\* Texts of the entries of the mutual fund action dropdown.
ItemTexts == {"Buy", "Sell", "Exchange"}

-----------------------------------------------------------------------------
(* Pure helpers. *)

Digits == <<"0", "1", "2", "3", "4", "5", "6", "7", "8", "9">>

\* The decimal digits of the other scripts, by their value 0 to 9: Decimal()
\* reads each of them as the ASCII digit of that value.
OtherDigits ==
    << { "۰", "߀", "০", "૦", "௦", "೦", "෦", "໐", "႐", "០", "᧐", "᪀",
         "᪐", "᮰", "꣐", "꧐", "꧰", "꯰" },
       { "۱", "߁", "১", "૧", "௧", "೧", "෧", "໑", "႑", "១", "᧑", "᪁",
         "᪑", "᮱", "꣑", "꧑", "꧱", "꯱" },
       { "۲", "߂", "২", "૨", "௨", "೨", "෨", "໒", "႒", "២", "᧒", "᪂",
         "᪒", "᮲", "꣒", "꧒", "꧲", "꯲" },
       { "۳", "߃", "৩", "૩", "௩", "೩", "෩", "໓", "႓", "៣", "᧓", "᪃",
         "᪓", "᮳", "꣓", "꧓", "꧳", "꯳" },
       { "۴", "߄", "৪", "૪", "௪", "೪", "෪", "໔", "႔", "៤", "᧔", "᪄",
         "᪔", "᮴", "꣔", "꧔", "꧴", "꯴" },
       { "۵", "߅", "৫", "૫", "௫", "೫", "෫", "໕", "႕", "៥", "᧕", "᪅",
         "᪕", "᮵", "꣕", "꧕", "꧵", "꯵" },
       { "۶", "߆", "৬", "૬", "௬", "೬", "෬", "໖", "႖", "៦", "᧖", "᪆",
         "᪖", "᮶", "꣖", "꧖", "꧶", "꯶" },
       { "۷", "߇", "৭", "૭", "௭", "೭", "෭", "໗", "႗", "៧", "᧗", "᪇",
         "᪗", "᮷", "꣗", "꧗", "꧷", "꯷" },
       { "۸", "߈", "৮", "૮", "௮", "೮", "෮", "໘", "႘", "៨", "᧘", "᪈",
         "᪘", "᮸", "꣘", "꧘", "꧸", "꯸" },
       { "۹", "߉", "৯", "૯", "௯", "೯", "෯", "໙", "႙", "៩", "᧙", "᪉",
         "᪙", "᮹", "꣙", "꧙", "꧹", "꯹" } >>

\* A decimal digit for Decimal(): an ASCII digit or one of another script.
\* (The digits of the scripts that a string of this module cannot hold, such as
\* U+0660 to U+0669, are digits for Decimal() too and are not modelled.)
IsDigit(c) ==
    \/ \E i \in 1..10 : Digits[i] = c
    \/ \E i \in 1..10 : c \in OtherDigits[i]

DigitValue(c) ==
    IF \E i \in 1..10 : Digits[i] = c
    THEN (CHOOSE i \in 1..10 : Digits[i] = c) - 1
    ELSE (CHOOSE i \in 1..10 : c \in OtherDigits[i]) - 1

RECURSIVE Pow10(_)
Pow10(n) == IF n = 0 THEN 1 ELSE 10 * Pow10(n - 1)

\* int() of a string of decimal digits
RECURSIVE DigitsToNat(_)
DigitsToNat(s) ==
    IF s = <<>> THEN 0
    ELSE 10 * DigitsToNat(SubSeq(s, 1, Len(s) - 1)) + DigitValue(s[Len(s)])

\* str() of a natural number
RECURSIVE NatToDigits(_)
NatToDigits(n) ==
    IF n < 10 THEN <<Digits[n + 1]>>
    ELSE NatToDigits(n \div 10) \o <<Digits[(n % 10) + 1]>>

UpperLetters ==
    << "A", "B", "C", "D", "E", "F", "G", "H", "I", "J", "K", "L", "M",
       "N", "O", "P", "Q", "R", "S", "T", "U", "V", "W", "X", "Y", "Z" >>

LowerLetters ==
    << "a", "b", "c", "d", "e", "f", "g", "h", "i", "j", "k", "l", "m",
       "n", "o", "p", "q", "r", "s", "t", "u", "v", "w", "x", "y", "z" >>

\* The capital letters of Latin-1 (U+00C0 to U+00DE without the sign U+00D7)
\* and their small letters.
UpperLatin1 ==
    << "À", "Á", "Â", "Ã", "Ä", "Å", "Æ", "Ç", "È", "É", "Ê", "Ë", "Ì", "Í", "Î", "Ï",
       "Ð", "Ñ", "Ò", "Ó", "Ô", "Õ", "Ö", "Ø", "Ù", "Ú", "Û", "Ü", "Ý", "Þ" >>

LowerLatin1 ==
    << "à", "á", "â", "ã", "ä", "å", "æ", "ç", "è", "é", "ê", "ë", "ì", "í", "î", "ï",
       "ð", "ñ", "ò", "ó", "ô", "õ", "ö", "ø", "ù", "ú", "û", "ü", "ý", "þ" >>

\* The ASCII letters in lower case: Decimal() reads its letters (e, inf, nan)
\* in either case, and no other letter as one of them.
AsciiLowerChar(c) ==
    IF \E i \in 1..26 : UpperLetters[i] = c
    THEN LowerLetters[CHOOSE i \in 1..26 : UpperLetters[i] = c]
    ELSE c

AsciiLower(s) == [i \in DOMAIN s |-> AsciiLowerChar(s[i])]

\* The letters beyond Latin-1 that str.lower() changes, and what it makes of
\* each.  A small letter that a string of this module cannot hold is written by
\* its code point, as "U+0253".
UpperOther ==
    << "Ɓ", "Ƃ", "Ƅ", "Ɔ", "Ƈ", "Ɖ", "Ɗ", "Ƌ", "Ǝ", "Ə", "Ɛ", "Ƒ", "Ɠ", "Ɣ", "Ɩ", "Ɨ",
       "Ƙ", "Ɯ", "Ɲ", "Ɵ", "Ơ", "Ƣ", "Ƥ", "Ʀ", "Ƨ", "Ʃ", "Ƭ", "Ʈ", "Ư", "Ʊ", "Ʋ", "Ƴ",
       "Ƶ", "Ʒ", "Ƹ", "Ƽ", "Ǆ", "ǅ", "Ǉ", "ǈ", "Ǌ", "ǋ", "Ǎ", "Ǐ", "Ǒ", "Ǔ", "Ǖ", "Ǘ",
       "Ǚ", "Ǜ", "Ǟ", "Ǡ", "Ǣ", "Ǥ", "Ǧ", "Ǩ", "Ǫ", "Ǭ", "Ǯ", "Ǳ", "ǲ", "Ǵ", "Ƕ", "Ƿ",
       "Ǹ", "Ǻ", "Ǽ", "Ǿ", "Ά", "Έ", "Ή", "Ί", "Ό", "Ύ", "Ώ", "Α", "Β", "Γ", "Δ", "Ε",
       "Ζ", "Η", "Θ", "Ι", "Κ", "Λ", "Μ", "Ν", "Ξ", "Ο", "Π", "Ρ", "Σ", "Τ", "Υ", "Φ",
       "Χ", "Ψ", "Ω", "Ϊ", "Ϋ", "Ϗ", "Ϙ", "Ϛ", "Ϝ", "Ϟ", "Ϡ", "Ϣ", "Ϥ", "Ϧ", "Ϩ", "Ϫ",
       "Ϭ", "Ϯ", "ϴ", "Ϸ", "Ϲ", "Ϻ", "Ͻ", "Ͼ", "Ͽ", "Ҁ", "Ҋ", "Ҍ", "Ҏ", "Ґ", "Ғ", "Ҕ",
       "Җ", "Ҙ", "Қ", "Ҝ", "Ҟ", "Ҡ", "Ң", "Ҥ", "Ҧ", "Ҩ", "Ҫ", "Ҭ", "Ү", "Ұ", "Ҳ", "Ҵ",
       "Ҷ", "Ҹ", "Һ", "Ҽ", "Ҿ", "Ӏ", "Ӂ", "Ӄ", "Ӆ", "Ӈ", "Ӊ", "Ӌ", "Ӎ", "Ӑ", "Ӓ", "Ӕ",
       "Ӗ", "Ә", "Ӛ", "Ӝ", "Ӟ", "Ӡ", "Ӣ", "Ӥ", "Ӧ", "Ө", "Ӫ", "Ӭ", "Ӯ", "Ӱ", "Ӳ", "Ӵ",
       "Ӷ", "Ӹ", "Ӻ", "Ӽ", "Ӿ", "Ⴀ", "Ⴁ", "Ⴂ", "Ⴃ", "Ⴄ", "Ⴅ", "Ⴆ", "Ⴇ", "Ⴈ", "Ⴉ", "Ⴊ",
       "Ⴋ", "Ⴌ", "Ⴍ", "Ⴎ", "Ⴏ", "Ⴐ", "Ⴑ", "Ⴒ", "Ⴓ", "Ⴔ", "Ⴕ", "Ⴖ", "Ⴗ", "Ⴘ", "Ⴙ", "Ⴚ",
       "Ⴛ", "Ⴜ", "Ⴝ", "Ⴞ", "Ⴟ", "Ⴠ", "Ⴡ", "Ⴢ", "Ⴣ", "Ⴤ", "Ⴥ", "Ⴧ", "Ⴭ", "Ꭰ", "Ꭱ", "Ꭲ",
       "Ꭳ", "Ꭴ", "Ꭵ", "Ꭶ", "Ꭷ", "Ꭸ", "Ꭹ", "Ꭺ", "Ꭻ", "Ꭼ", "Ꭽ", "Ꭾ", "Ꭿ", "Ꮀ", "Ꮁ", "Ꮂ",
       "Ꮃ", "Ꮄ", "Ꮅ", "Ꮆ", "Ꮇ", "Ꮈ", "Ꮉ", "Ꮊ", "Ꮋ", "Ꮌ", "Ꮍ", "Ꮎ", "Ꮏ", "Ꮐ", "Ꮑ", "Ꮒ",
       "Ꮓ", "Ꮔ", "Ꮕ", "Ꮖ", "Ꮗ", "Ꮘ", "Ꮙ", "Ꮚ", "Ꮛ", "Ꮜ", "Ꮝ", "Ꮞ", "Ꮟ", "Ꮠ", "Ꮡ", "Ꮢ",
       "Ꮣ", "Ꮤ", "Ꮥ", "Ꮦ", "Ꮧ", "Ꮨ", "Ꮩ", "Ꮪ", "Ꮫ", "Ꮬ", "Ꮭ", "Ꮮ", "Ꮯ", "Ꮰ", "Ꮱ", "Ꮲ",
       "Ꮳ", "Ꮴ", "Ꮵ", "Ꮶ", "Ꮷ", "Ꮸ", "Ꮹ", "Ꮺ", "Ꮻ", "Ꮼ", "Ꮽ", "Ꮾ", "Ꮿ", "Ᏸ", "Ᏹ", "Ᏺ",
       "Ᏻ", "Ᏼ", "Ᏽ", "Ა", "Ბ", "Გ", "Დ", "Ე", "Ვ", "Ზ", "Თ", "Ი", "Კ", "Ლ", "Მ", "Ნ",
       "Ო", "Პ", "Ჟ", "Რ", "Ს", "Ტ", "Უ", "Ფ", "Ქ", "Ღ", "Ყ", "Შ", "Ჩ", "Ც", "Ძ", "Წ",
       "Ჭ", "Ხ", "Ჯ", "Ჰ", "Ჱ", "Ჲ", "Ჳ", "Ჴ", "Ჵ", "Ჶ", "Ჷ", "Ჸ", "Ჹ", "Ჺ", "Ჽ", "Ჾ",
       "Ჿ", "Ẁ", "Ẃ", "Ẅ", "Ẇ", "Ẉ", "Ẋ", "Ẍ", "Ẏ", "Ẑ", "Ẓ", "Ẕ", "ẞ", "Ạ", "Ả", "Ấ",
       "Ầ", "Ẩ", "Ẫ", "Ậ", "Ắ", "Ằ", "Ẳ", "Ẵ", "Ặ", "Ẹ", "Ẻ", "Ẽ", "Ế", "Ề", "Ể", "Ễ",
       "Ệ", "Ỉ", "Ị", "Ọ", "Ỏ", "Ố", "Ồ", "Ổ", "Ỗ", "Ộ", "Ớ", "Ờ", "Ở", "Ỡ", "Ợ", "Ụ",
       "Ủ", "Ứ", "Ừ", "Ử", "Ữ", "Ự", "Ỳ", "Ỵ", "Ỷ", "Ỹ", "Ỻ", "Ỽ", "Ỿ", "ᾈ", "ᾉ", "ᾊ",
       "ᾋ", "ᾌ", "ᾍ", "ᾎ", "ᾏ", "ᾘ", "ᾙ", "ᾚ", "ᾛ", "ᾜ", "ᾝ", "ᾞ", "ᾟ", "ᾨ", "ᾩ", "ᾪ",
       "ᾫ", "ᾬ", "ᾭ", "ᾮ", "ᾯ", "Ᾰ", "Ᾱ", "Ὰ", "Ά", "ᾼ", "Ὲ", "Έ", "Ὴ", "Ή", "ῌ", "Ῐ",
       "Ῑ", "Ὶ", "Ί", "Ῠ", "Ῡ", "Ὺ", "Ύ", "Ῥ", "Ὸ", "Ό", "Ὼ", "Ώ", "ῼ", "Ↄ", "Ⓐ", "Ⓑ",
       "Ⓒ", "Ⓓ", "Ⓔ", "Ⓕ", "Ⓖ", "Ⓗ", "Ⓘ", "Ⓙ", "Ⓚ", "Ⓛ", "Ⓜ", "Ⓝ", "Ⓞ", "Ⓟ", "Ⓠ", "Ⓡ",
       "Ⓢ", "Ⓣ", "Ⓤ", "Ⓥ", "Ⓦ", "Ⓧ", "Ⓨ", "Ⓩ", "Ⲁ", "Ⲃ", "Ⲅ", "Ⲇ", "Ⲉ", "Ⲋ", "Ⲍ", "Ⲏ",
       "Ⲑ", "Ⲓ", "Ⲕ", "Ⲗ", "Ⲙ", "Ⲛ", "Ⲝ", "Ⲟ", "Ⲡ", "Ⲣ", "Ⲥ", "Ⲧ", "Ⲩ", "Ⲫ", "Ⲭ", "Ⲯ",
       "Ⲱ", "Ⲳ", "Ⲵ", "Ⲷ", "Ⲹ", "Ⲻ", "Ⲽ", "Ⲿ", "Ⳁ", "Ⳃ", "Ⳅ", "Ⳇ", "Ⳉ", "Ⳋ", "Ⳍ", "Ⳏ",
       "Ⳑ", "Ⳓ", "Ⳕ", "Ⳗ", "Ⳙ", "Ⳛ", "Ⳝ", "Ⳟ", "Ⳡ", "Ⳣ", "Ⳬ", "Ⳮ", "Ⳳ", "Ꚁ", "Ꚃ", "Ꚅ",
       "Ꚇ", "Ꚉ", "Ꚋ", "Ꚍ", "Ꚏ", "Ꚑ", "Ꚓ", "Ꚕ", "Ꚗ", "Ꚙ", "Ꚛ", "Ꞁ", "Ꞃ", "Ꞅ", "Ꞇ", "Ꞌ",
       "Ɥ", "Ꞑ", "Ꞓ", "Ꞗ", "Ꞙ", "Ꞛ", "Ꞝ", "Ꞟ", "Ꞡ", "Ꞣ", "Ꞥ", "Ꞧ", "Ꞩ", "Ɦ", "Ɜ", "Ɡ",
       "Ɬ", "Ɪ", "Ʞ", "Ʇ", "Ʝ", "Ꭓ", "Ꞵ", "Ꞷ", "Ꞹ", "Ꞻ", "Ꞽ", "Ꞿ", "Ꟁ", "Ꟃ", "Ꞔ", "Ʂ",
       "Ᶎ", "Ꟈ", "Ꟊ", "Ꟑ", "Ꟗ", "Ꟙ", "Ꟶ" >>

LowerOther ==
    << "U+0253", "ƃ", "ƅ", "U+0254", "ƈ", "U+0256", "U+0257", "ƌ", "ǝ", "U+0259", "U+025B", "ƒ", "U+0260", "U+0263", "U+0269", "U+0268",
       "ƙ", "U+026F", "U+0272", "U+0275", "ơ", "ƣ", "ƥ", "ʀ", "ƨ", "ʃ", "ƭ", "ʈ", "ư", "ʊ", "ʋ", "ƴ",
       "ƶ", "ʒ", "ƹ", "ƽ", "ǆ", "ǆ", "ǉ", "ǉ", "ǌ", "ǌ", "ǎ", "ǐ", "ǒ", "ǔ", "ǖ", "ǘ",
       "ǚ", "ǜ", "ǟ", "ǡ", "ǣ", "ǥ", "ǧ", "ǩ", "ǫ", "ǭ", "ǯ", "ǳ", "ǳ", "ǵ", "ƕ", "ƿ",
       "ǹ", "ǻ", "ǽ", "ǿ", "ά", "έ", "ή", "ί", "ό", "ύ", "ώ", "α", "β", "γ", "δ", "ε",
       "ζ", "η", "θ", "ι", "κ", "λ", "μ", "ν", "ξ", "ο", "π", "ρ", "σ", "τ", "υ", "φ",
       "χ", "ψ", "ω", "ϊ", "ϋ", "ϗ", "ϙ", "ϛ", "ϝ", "ϟ", "ϡ", "ϣ", "ϥ", "ϧ", "ϩ", "ϫ",
       "ϭ", "ϯ", "θ", "ϸ", "ϲ", "ϻ", "U+037B", "U+037C", "U+037D", "ҁ", "ҋ", "ҍ", "ҏ", "ґ", "ғ", "ҕ",
       "җ", "ҙ", "қ", "ҝ", "ҟ", "ҡ", "ң", "ҥ", "ҧ", "ҩ", "ҫ", "ҭ", "ү", "ұ", "ҳ", "ҵ",
       "ҷ", "ҹ", "һ", "ҽ", "ҿ", "ӏ", "ӂ", "ӄ", "ӆ", "ӈ", "ӊ", "ӌ", "ӎ", "ӑ", "ӓ", "ӕ",
       "ӗ", "ә", "ӛ", "ӝ", "ӟ", "ӡ", "ӣ", "ӥ", "ӧ", "ө", "ӫ", "ӭ", "ӯ", "ӱ", "ӳ", "ӵ",
       "ӷ", "ӹ", "ӻ", "ӽ", "ӿ", "U+2D00", "U+2D01", "U+2D02", "U+2D03", "U+2D04", "U+2D05", "U+2D06", "U+2D07", "U+2D08", "U+2D09", "U+2D0A",
       "U+2D0B", "U+2D0C", "U+2D0D", "U+2D0E", "U+2D0F", "U+2D10", "U+2D11", "U+2D12", "U+2D13", "U+2D14", "U+2D15", "U+2D16", "U+2D17", "U+2D18", "U+2D19", "U+2D1A",
       "U+2D1B", "U+2D1C", "U+2D1D", "U+2D1E", "U+2D1F", "U+2D20", "U+2D21", "U+2D22", "U+2D23", "U+2D24", "U+2D25", "U+2D27", "U+2D2D", "U+AB70", "U+AB71", "U+AB72",
       "U+AB73", "U+AB74", "U+AB75", "U+AB76", "U+AB77", "U+AB78", "U+AB79", "U+AB7A", "U+AB7B", "U+AB7C", "U+AB7D", "U+AB7E", "U+AB7F", "ꮀ", "ꮁ", "ꮂ",
       "ꮃ", "ꮄ", "ꮅ", "ꮆ", "ꮇ", "ꮈ", "ꮉ", "ꮊ", "ꮋ", "ꮌ", "ꮍ", "ꮎ", "ꮏ", "ꮐ", "ꮑ", "ꮒ",
       "ꮓ", "ꮔ", "ꮕ", "ꮖ", "ꮗ", "ꮘ", "ꮙ", "ꮚ", "ꮛ", "ꮜ", "ꮝ", "ꮞ", "ꮟ", "ꮠ", "ꮡ", "ꮢ",
       "ꮣ", "ꮤ", "ꮥ", "ꮦ", "ꮧ", "ꮨ", "ꮩ", "ꮪ", "ꮫ", "ꮬ", "ꮭ", "ꮮ", "ꮯ", "ꮰ", "ꮱ", "ꮲ",
       "ꮳ", "ꮴ", "ꮵ", "ꮶ", "ꮷ", "ꮸ", "ꮹ", "ꮺ", "ꮻ", "ꮼ", "ꮽ", "ꮾ", "ꮿ", "ᏸ", "ᏹ", "ᏺ",
       "ᏻ", "ᏼ", "ᏽ", "ა", "ბ", "გ", "დ", "ე", "ვ", "ზ", "თ", "ი", "კ", "ლ", "მ", "ნ",
       "ო", "პ", "ჟ", "რ", "ს", "ტ", "უ", "ფ", "ქ", "ღ", "ყ", "შ", "ჩ", "ც", "ძ", "წ",
       "ჭ", "ხ", "ჯ", "ჰ", "ჱ", "ჲ", "ჳ", "ჴ", "ჵ", "ჶ", "ჷ", "ჸ", "ჹ", "ჺ", "ჽ", "ჾ",
       "ჿ", "ẁ", "ẃ", "ẅ", "ẇ", "ẉ", "ẋ", "ẍ", "ẏ", "ẑ", "ẓ", "ẕ", "ß", "ạ", "ả", "ấ",
       "ầ", "ẩ", "ẫ", "ậ", "ắ", "ằ", "ẳ", "ẵ", "ặ", "ẹ", "ẻ", "ẽ", "ế", "ề", "ể", "ễ",
       "ệ", "ỉ", "ị", "ọ", "ỏ", "ố", "ồ", "ổ", "ỗ", "ộ", "ớ", "ờ", "ở", "ỡ", "ợ", "ụ",
       "ủ", "ứ", "ừ", "ử", "ữ", "ự", "ỳ", "ỵ", "ỷ", "ỹ", "ỻ", "ỽ", "ỿ", "ᾀ", "ᾁ", "ᾂ",
       "ᾃ", "ᾄ", "ᾅ", "ᾆ", "ᾇ", "ᾐ", "ᾑ", "ᾒ", "ᾓ", "ᾔ", "ᾕ", "ᾖ", "ᾗ", "ᾠ", "ᾡ", "ᾢ",
       "ᾣ", "ᾤ", "ᾥ", "ᾦ", "ᾧ", "ᾰ", "ᾱ", "U+1F70", "U+1F71", "ᾳ", "U+1F72", "U+1F73", "U+1F74", "U+1F75", "ῃ", "ῐ",
       "ῑ", "U+1F76", "U+1F77", "ῠ", "ῡ", "U+1F7A", "U+1F7B", "ῥ", "U+1F78", "U+1F79", "U+1F7C", "U+1F7D", "ῳ", "ↄ", "ⓐ", "ⓑ",
       "ⓒ", "ⓓ", "ⓔ", "ⓕ", "ⓖ", "ⓗ", "ⓘ", "ⓙ", "ⓚ", "ⓛ", "ⓜ", "ⓝ", "ⓞ", "ⓟ", "ⓠ", "ⓡ",
       "ⓢ", "ⓣ", "ⓤ", "ⓥ", "ⓦ", "ⓧ", "ⓨ", "ⓩ", "ⲁ", "ⲃ", "ⲅ", "ⲇ", "ⲉ", "ⲋ", "ⲍ", "ⲏ",
       "ⲑ", "ⲓ", "ⲕ", "ⲗ", "ⲙ", "ⲛ", "ⲝ", "ⲟ", "ⲡ", "ⲣ", "ⲥ", "ⲧ", "ⲩ", "ⲫ", "ⲭ", "ⲯ",
       "ⲱ", "ⲳ", "ⲵ", "ⲷ", "ⲹ", "ⲻ", "ⲽ", "ⲿ", "ⳁ", "ⳃ", "ⳅ", "ⳇ", "ⳉ", "ⳋ", "ⳍ", "ⳏ",
       "ⳑ", "ⳓ", "ⳕ", "ⳗ", "ⳙ", "ⳛ", "ⳝ", "ⳟ", "ⳡ", "ⳣ", "ⳬ", "ⳮ", "ⳳ", "ꚁ", "ꚃ", "ꚅ",
       "ꚇ", "ꚉ", "ꚋ", "ꚍ", "ꚏ", "ꚑ", "ꚓ", "ꚕ", "ꚗ", "ꚙ", "ꚛ", "ꞁ", "ꞃ", "ꞅ", "ꞇ", "ꞌ",
       "U+0265", "ꞑ", "ꞓ", "ꞗ", "ꞙ", "ꞛ", "ꞝ", "ꞟ", "ꞡ", "ꞣ", "ꞥ", "ꞧ", "ꞩ", "U+0266", "U+025C", "U+0261",
       "U+026C", "U+026A", "ʞ", "ʇ", "ʝ", "U+AB53", "ꞵ", "ꞷ", "ꞹ", "ꞻ", "ꞽ", "ꞿ", "ꟁ", "ꟃ", "ꞔ", "ʂ",
       "ᶎ", "ꟈ", "ꟊ", "ꟑ", "ꟗ", "ꟙ", "ꟶ" >>

\* The cased characters (letters with a case) that are not case-ignorable.
Cased ==
    { "A", "B", "C", "D", "E", "F", "G", "H", "I", "J", "K", "L", "M", "N", "O", "P",
      "Q", "R", "S", "T", "U", "V", "W", "X", "Y", "Z", "a", "b", "c", "d", "e", "f",
      "g", "h", "i", "j", "k", "l", "m", "n", "o", "p", "q", "r", "s", "t", "u", "v",
      "w", "x", "y", "z", "ª", "µ", "º", "À", "Á", "Â", "Ã", "Ä", "Å", "Æ", "Ç", "È",
      "É", "Ê", "Ë", "Ì", "Í", "Î", "Ï", "Ð", "Ñ", "Ò", "Ó", "Ô", "Õ", "Ö", "Ø", "Ù",
      "Ú", "Û", "Ü", "Ý", "Þ", "ß", "à", "á", "â", "ã", "ä", "å", "æ", "ç", "è", "é",
      "ê", "ë", "ì", "í", "î", "ï", "ð", "ñ", "ò", "ó", "ô", "õ", "ö", "ø", "ù", "ú",
      "û", "ü", "ý", "þ", "ÿ", "ƀ", "Ɓ", "Ƃ", "ƃ", "Ƅ", "ƅ", "Ɔ", "Ƈ", "ƈ", "Ɖ", "Ɗ",
      "Ƌ", "ƌ", "ƍ", "Ǝ", "Ə", "Ɛ", "Ƒ", "ƒ", "Ɠ", "Ɣ", "ƕ", "Ɩ", "Ɨ", "Ƙ", "ƙ", "ƚ",
      "ƛ", "Ɯ", "Ɲ", "ƞ", "Ɵ", "Ơ", "ơ", "Ƣ", "ƣ", "Ƥ", "ƥ", "Ʀ", "Ƨ", "ƨ", "Ʃ", "ƪ",
      "ƫ", "Ƭ", "ƭ", "Ʈ", "Ư", "ư", "Ʊ", "Ʋ", "Ƴ", "ƴ", "Ƶ", "ƶ", "Ʒ", "Ƹ", "ƹ", "ƺ",
      "Ƽ", "ƽ", "ƾ", "ƿ", "Ǆ", "ǅ", "ǆ", "Ǉ", "ǈ", "ǉ", "Ǌ", "ǋ", "ǌ", "Ǎ", "ǎ", "Ǐ",
      "ǐ", "Ǒ", "ǒ", "Ǔ", "ǔ", "Ǖ", "ǖ", "Ǘ", "ǘ", "Ǚ", "ǚ", "Ǜ", "ǜ", "ǝ", "Ǟ", "ǟ",
      "Ǡ", "ǡ", "Ǣ", "ǣ", "Ǥ", "ǥ", "Ǧ", "ǧ", "Ǩ", "ǩ", "Ǫ", "ǫ", "Ǭ", "ǭ", "Ǯ", "ǯ",
      "ǰ", "Ǳ", "ǲ", "ǳ", "Ǵ", "ǵ", "Ƕ", "Ƿ", "Ǹ", "ǹ", "Ǻ", "ǻ", "Ǽ", "ǽ", "Ǿ", "ǿ",
      "ʀ", "ʁ", "ʂ", "ʃ", "ʄ", "ʅ", "ʆ", "ʇ", "ʈ", "ʉ", "ʊ", "ʋ", "ʌ", "ʍ", "ʎ", "ʏ",
      "ʐ", "ʑ", "ʒ", "ʓ", "ʕ", "ʖ", "ʗ", "ʘ", "ʙ", "ʚ", "ʛ", "ʜ", "ʝ", "ʞ", "ʟ", "ʠ",
      "ʡ", "ʢ", "ʣ", "ʤ", "ʥ", "ʦ", "ʧ", "ʨ", "ʩ", "ʪ", "ʫ", "ʬ", "ʭ", "ʮ", "ʯ", "Ά",
      "Έ", "Ή", "Ί", "Ό", "Ύ", "Ώ", "ΐ", "Α", "Β", "Γ", "Δ", "Ε", "Ζ", "Η", "Θ", "Ι",
      "Κ", "Λ", "Μ", "Ν", "Ξ", "Ο", "Π", "Ρ", "Σ", "Τ", "Υ", "Φ", "Χ", "Ψ", "Ω", "Ϊ",
      "Ϋ", "ά", "έ", "ή", "ί", "ΰ", "α", "β", "γ", "δ", "ε", "ζ", "η", "θ", "ι", "κ",
      "λ", "μ", "ν", "ξ", "ο", "π", "ρ", "ς", "σ", "τ", "υ", "φ", "χ", "ψ", "ω", "ϊ",
      "ϋ", "ό", "ύ", "ώ", "Ϗ", "ϐ", "ϑ", "ϒ", "ϓ", "ϔ", "ϕ", "ϖ", "ϗ", "Ϙ", "ϙ", "Ϛ",
      "ϛ", "Ϝ", "ϝ", "Ϟ", "ϟ", "Ϡ", "ϡ", "Ϣ", "ϣ", "Ϥ", "ϥ", "Ϧ", "ϧ", "Ϩ", "ϩ", "Ϫ",
      "ϫ", "Ϭ", "ϭ", "Ϯ", "ϯ", "ϰ", "ϱ", "ϲ", "ϳ", "ϴ", "ϵ", "Ϸ", "ϸ", "Ϲ", "Ϻ", "ϻ",
      "ϼ", "Ͻ", "Ͼ", "Ͽ", "Ҁ", "ҁ", "Ҋ", "ҋ", "Ҍ", "ҍ", "Ҏ", "ҏ", "Ґ", "ґ", "Ғ", "ғ",
      "Ҕ", "ҕ", "Җ", "җ", "Ҙ", "ҙ", "Қ", "қ", "Ҝ", "ҝ", "Ҟ", "ҟ", "Ҡ", "ҡ", "Ң", "ң",
      "Ҥ", "ҥ", "Ҧ", "ҧ", "Ҩ", "ҩ", "Ҫ", "ҫ", "Ҭ", "ҭ", "Ү", "ү", "Ұ", "ұ", "Ҳ", "ҳ",
      "Ҵ", "ҵ", "Ҷ", "ҷ", "Ҹ", "ҹ", "Һ", "һ", "Ҽ", "ҽ", "Ҿ", "ҿ", "Ӏ", "Ӂ", "ӂ", "Ӄ",
      "ӄ", "Ӆ", "ӆ", "Ӈ", "ӈ", "Ӊ", "ӊ", "Ӌ", "ӌ", "Ӎ", "ӎ", "ӏ", "Ӑ", "ӑ", "Ӓ", "ӓ",
      "Ӕ", "ӕ", "Ӗ", "ӗ", "Ә", "ә", "Ӛ", "ӛ", "Ӝ", "ӝ", "Ӟ", "ӟ", "Ӡ", "ӡ", "Ӣ", "ӣ",
      "Ӥ", "ӥ", "Ӧ", "ӧ", "Ө", "ө", "Ӫ", "ӫ", "Ӭ", "ӭ", "Ӯ", "ӯ", "Ӱ", "ӱ", "Ӳ", "ӳ",
      "Ӵ", "ӵ", "Ӷ", "ӷ", "Ӹ", "ӹ", "Ӻ", "ӻ", "Ӽ", "ӽ", "Ӿ", "ӿ", "ր", "ց", "ւ", "փ",
      "ք", "օ", "ֆ", "և", "ֈ", "Ⴀ", "Ⴁ", "Ⴂ", "Ⴃ", "Ⴄ", "Ⴅ", "Ⴆ", "Ⴇ", "Ⴈ", "Ⴉ", "Ⴊ",
      "Ⴋ", "Ⴌ", "Ⴍ", "Ⴎ", "Ⴏ", "Ⴐ", "Ⴑ", "Ⴒ", "Ⴓ", "Ⴔ", "Ⴕ", "Ⴖ", "Ⴗ", "Ⴘ", "Ⴙ", "Ⴚ",
      "Ⴛ", "Ⴜ", "Ⴝ", "Ⴞ", "Ⴟ", "Ⴠ", "Ⴡ", "Ⴢ", "Ⴣ", "Ⴤ", "Ⴥ", "Ⴧ", "Ⴭ", "ა", "ბ", "გ",
      "დ", "ე", "ვ", "ზ", "თ", "ი", "კ", "ლ", "მ", "ნ", "ო", "პ", "ჟ", "რ", "ს", "ტ",
      "უ", "ფ", "ქ", "ღ", "ყ", "შ", "ჩ", "ც", "ძ", "წ", "ჭ", "ხ", "ჯ", "ჰ", "ჱ", "ჲ",
      "ჳ", "ჴ", "ჵ", "ჶ", "ჷ", "ჸ", "ჹ", "ჺ", "ჽ", "ჾ", "ჿ", "Ꭰ", "Ꭱ", "Ꭲ", "Ꭳ", "Ꭴ",
      "Ꭵ", "Ꭶ", "Ꭷ", "Ꭸ", "Ꭹ", "Ꭺ", "Ꭻ", "Ꭼ", "Ꭽ", "Ꭾ", "Ꭿ", "Ꮀ", "Ꮁ", "Ꮂ", "Ꮃ", "Ꮄ",
      "Ꮅ", "Ꮆ", "Ꮇ", "Ꮈ", "Ꮉ", "Ꮊ", "Ꮋ", "Ꮌ", "Ꮍ", "Ꮎ", "Ꮏ", "Ꮐ", "Ꮑ", "Ꮒ", "Ꮓ", "Ꮔ",
      "Ꮕ", "Ꮖ", "Ꮗ", "Ꮘ", "Ꮙ", "Ꮚ", "Ꮛ", "Ꮜ", "Ꮝ", "Ꮞ", "Ꮟ", "Ꮠ", "Ꮡ", "Ꮢ", "Ꮣ", "Ꮤ",
      "Ꮥ", "Ꮦ", "Ꮧ", "Ꮨ", "Ꮩ", "Ꮪ", "Ꮫ", "Ꮬ", "Ꮭ", "Ꮮ", "Ꮯ", "Ꮰ", "Ꮱ", "Ꮲ", "Ꮳ", "Ꮴ",
      "Ꮵ", "Ꮶ", "Ꮷ", "Ꮸ", "Ꮹ", "Ꮺ", "Ꮻ", "Ꮼ", "Ꮽ", "Ꮾ", "Ꮿ", "Ᏸ", "Ᏹ", "Ᏺ", "Ᏻ", "Ᏼ",
      "Ᏽ", "ᏸ", "ᏹ", "ᏺ", "ᏻ", "ᏼ", "ᏽ", "ᲀ", "ᲁ", "ᲂ", "ᲃ", "ᲄ", "ᲅ", "ᲆ", "ᲇ", "ᲈ",
      "Ა", "Ბ", "Გ", "Დ", "Ე", "Ვ", "Ზ", "Თ", "Ი", "Კ", "Ლ", "Მ", "Ნ", "Ო", "Პ", "Ჟ",
      "Რ", "Ს", "Ტ", "Უ", "Ფ", "Ქ", "Ღ", "Ყ", "Შ", "Ჩ", "Ც", "Ძ", "Წ", "Ჭ", "Ხ", "Ჯ",
      "Ჰ", "Ჱ", "Ჲ", "Ჳ", "Ჴ", "Ჵ", "Ჶ", "Ჷ", "Ჸ", "Ჹ", "Ჺ", "Ჽ", "Ჾ", "Ჿ", "ᶀ", "ᶁ",
      "ᶂ", "ᶃ", "ᶄ", "ᶅ", "ᶆ", "ᶇ", "ᶈ", "ᶉ", "ᶊ", "ᶋ", "ᶌ", "ᶍ", "ᶎ", "ᶏ", "ᶐ", "ᶑ",
      "ᶒ", "ᶓ", "ᶔ", "ᶕ", "ᶖ", "ᶗ", "ᶘ", "ᶙ", "ᶚ", "Ẁ", "ẁ", "Ẃ", "ẃ", "Ẅ", "ẅ", "Ẇ",
      "ẇ", "Ẉ", "ẉ", "Ẋ", "ẋ", "Ẍ", "ẍ", "Ẏ", "ẏ", "Ẑ", "ẑ", "Ẓ", "ẓ", "Ẕ", "ẕ", "ẖ",
      "ẗ", "ẘ", "ẙ", "ẚ", "ẛ", "ẜ", "ẝ", "ẞ", "ẟ", "Ạ", "ạ", "Ả", "ả", "Ấ", "ấ", "Ầ",
      "ầ", "Ẩ", "ẩ", "Ẫ", "ẫ", "Ậ", "ậ", "Ắ", "ắ", "Ằ", "ằ", "Ẳ", "ẳ", "Ẵ", "ẵ", "Ặ",
      "ặ", "Ẹ", "ẹ", "Ẻ", "ẻ", "Ẽ", "ẽ", "Ế", "ế", "Ề", "ề", "Ể", "ể", "Ễ", "ễ", "Ệ",
      "ệ", "Ỉ", "ỉ", "Ị", "ị", "Ọ", "ọ", "Ỏ", "ỏ", "Ố", "ố", "Ồ", "ồ", "Ổ", "ổ", "Ỗ",
      "ỗ", "Ộ", "ộ", "Ớ", "ớ", "Ờ", "ờ", "Ở", "ở", "Ỡ", "ỡ", "Ợ", "ợ", "Ụ", "ụ", "Ủ",
      "ủ", "Ứ", "ứ", "Ừ", "ừ", "Ử", "ử", "Ữ", "ữ", "Ự", "ự", "Ỳ", "ỳ", "Ỵ", "ỵ", "Ỷ",
      "ỷ", "Ỹ", "ỹ", "Ỻ", "ỻ", "Ỽ", "ỽ", "Ỿ", "ỿ", "ᾀ", "ᾁ", "ᾂ", "ᾃ", "ᾄ", "ᾅ", "ᾆ",
      "ᾇ", "ᾈ", "ᾉ", "ᾊ", "ᾋ", "ᾌ", "ᾍ", "ᾎ", "ᾏ", "ᾐ", "ᾑ", "ᾒ", "ᾓ", "ᾔ", "ᾕ", "ᾖ",
      "ᾗ", "ᾘ", "ᾙ", "ᾚ", "ᾛ", "ᾜ", "ᾝ", "ᾞ", "ᾟ", "ᾠ", "ᾡ", "ᾢ", "ᾣ", "ᾤ", "ᾥ", "ᾦ",
      "ᾧ", "ᾨ", "ᾩ", "ᾪ", "ᾫ", "ᾬ", "ᾭ", "ᾮ", "ᾯ", "ᾰ", "ᾱ", "ᾲ", "ᾳ", "ᾴ", "ᾶ", "ᾷ",
      "Ᾰ", "Ᾱ", "Ὰ", "Ά", "ᾼ", "ι", "ῂ", "ῃ", "ῄ", "ῆ", "ῇ", "Ὲ", "Έ", "Ὴ", "Ή", "ῌ",
      "ῐ", "ῑ", "ῒ", "ΐ", "ῖ", "ῗ", "Ῐ", "Ῑ", "Ὶ", "Ί", "ῠ", "ῡ", "ῢ", "ΰ", "ῤ", "ῥ",
      "ῦ", "ῧ", "Ῠ", "Ῡ", "Ὺ", "Ύ", "Ῥ", "ῲ", "ῳ", "ῴ", "ῶ", "ῷ", "Ὸ", "Ό", "Ὼ", "Ώ",
      "ῼ", "Ↄ", "ↄ", "Ⓐ", "Ⓑ", "Ⓒ", "Ⓓ", "Ⓔ", "Ⓕ", "Ⓖ", "Ⓗ", "Ⓘ", "Ⓙ", "Ⓚ", "Ⓛ", "Ⓜ",
      "Ⓝ", "Ⓞ", "Ⓟ", "Ⓠ", "Ⓡ", "Ⓢ", "Ⓣ", "Ⓤ", "Ⓥ", "Ⓦ", "Ⓧ", "Ⓨ", "Ⓩ", "ⓐ", "ⓑ", "ⓒ",
      "ⓓ", "ⓔ", "ⓕ", "ⓖ", "ⓗ", "ⓘ", "ⓙ", "ⓚ", "ⓛ", "ⓜ", "ⓝ", "ⓞ", "ⓟ", "ⓠ", "ⓡ", "ⓢ",
      "ⓣ", "ⓤ", "ⓥ", "ⓦ", "ⓧ", "ⓨ", "ⓩ", "Ⲁ", "ⲁ", "Ⲃ", "ⲃ", "Ⲅ", "ⲅ", "Ⲇ", "ⲇ", "Ⲉ",
      "ⲉ", "Ⲋ", "ⲋ", "Ⲍ", "ⲍ", "Ⲏ", "ⲏ", "Ⲑ", "ⲑ", "Ⲓ", "ⲓ", "Ⲕ", "ⲕ", "Ⲗ", "ⲗ", "Ⲙ",
      "ⲙ", "Ⲛ", "ⲛ", "Ⲝ", "ⲝ", "Ⲟ", "ⲟ", "Ⲡ", "ⲡ", "Ⲣ", "ⲣ", "Ⲥ", "ⲥ", "Ⲧ", "ⲧ", "Ⲩ",
      "ⲩ", "Ⲫ", "ⲫ", "Ⲭ", "ⲭ", "Ⲯ", "ⲯ", "Ⲱ", "ⲱ", "Ⲳ", "ⲳ", "Ⲵ", "ⲵ", "Ⲷ", "ⲷ", "Ⲹ",
      "ⲹ", "Ⲻ", "ⲻ", "Ⲽ", "ⲽ", "Ⲿ", "ⲿ", "Ⳁ", "ⳁ", "Ⳃ", "ⳃ", "Ⳅ", "ⳅ", "Ⳇ", "ⳇ", "Ⳉ",
      "ⳉ", "Ⳋ", "ⳋ", "Ⳍ", "ⳍ", "Ⳏ", "ⳏ", "Ⳑ", "ⳑ", "Ⳓ", "ⳓ", "Ⳕ", "ⳕ", "Ⳗ", "ⳗ", "Ⳙ",
      "ⳙ", "Ⳛ", "ⳛ", "Ⳝ", "ⳝ", "Ⳟ", "ⳟ", "Ⳡ", "ⳡ", "Ⳣ", "ⳣ", "ⳤ", "Ⳬ", "ⳬ", "Ⳮ", "ⳮ",
      "Ⳳ", "ⳳ", "Ꚁ", "ꚁ", "Ꚃ", "ꚃ", "Ꚅ", "ꚅ", "Ꚇ", "ꚇ", "Ꚉ", "ꚉ", "Ꚋ", "ꚋ", "Ꚍ", "ꚍ",
      "Ꚏ", "ꚏ", "Ꚑ", "ꚑ", "Ꚓ", "ꚓ", "Ꚕ", "ꚕ", "Ꚗ", "ꚗ", "Ꚙ", "ꚙ", "Ꚛ", "ꚛ", "Ꞁ", "ꞁ",
      "Ꞃ", "ꞃ", "Ꞅ", "ꞅ", "Ꞇ", "ꞇ", "Ꞌ", "ꞌ", "Ɥ", "ꞎ", "Ꞑ", "ꞑ", "Ꞓ", "ꞓ", "ꞔ", "ꞕ",
      "Ꞗ", "ꞗ", "Ꞙ", "ꞙ", "Ꞛ", "ꞛ", "Ꞝ", "ꞝ", "Ꞟ", "ꞟ", "Ꞡ", "ꞡ", "Ꞣ", "ꞣ", "Ꞥ", "ꞥ",
      "Ꞧ", "ꞧ", "Ꞩ", "ꞩ", "Ɦ", "Ɜ", "Ɡ", "Ɬ", "Ɪ", "ꞯ", "Ʞ", "Ʇ", "Ʝ", "Ꭓ", "Ꞵ", "ꞵ",
      "Ꞷ", "ꞷ", "Ꞹ", "ꞹ", "Ꞻ", "ꞻ", "Ꞽ", "ꞽ", "Ꞿ", "ꞿ", "Ꟁ", "ꟁ", "Ꟃ", "ꟃ", "Ꞔ", "Ʂ",
      "Ᶎ", "Ꟈ", "ꟈ", "Ꟊ", "ꟊ", "Ꟑ", "ꟑ", "ꟓ", "ꟕ", "Ꟗ", "ꟗ", "Ꟙ", "ꟙ", "Ꟶ", "ꟶ", "ꟺ",
      "ꮀ", "ꮁ", "ꮂ", "ꮃ", "ꮄ", "ꮅ", "ꮆ", "ꮇ", "ꮈ", "ꮉ", "ꮊ", "ꮋ", "ꮌ", "ꮍ", "ꮎ", "ꮏ",
      "ꮐ", "ꮑ", "ꮒ", "ꮓ", "ꮔ", "ꮕ", "ꮖ", "ꮗ", "ꮘ", "ꮙ", "ꮚ", "ꮛ", "ꮜ", "ꮝ", "ꮞ", "ꮟ",
      "ꮠ", "ꮡ", "ꮢ", "ꮣ", "ꮤ", "ꮥ", "ꮦ", "ꮧ", "ꮨ", "ꮩ", "ꮪ", "ꮫ", "ꮬ", "ꮭ", "ꮮ", "ꮯ",
      "ꮰ", "ꮱ", "ꮲ", "ꮳ", "ꮴ", "ꮵ", "ꮶ", "ꮷ", "ꮸ", "ꮹ", "ꮺ", "ꮻ", "ꮼ", "ꮽ", "ꮾ", "ꮿ" }

\* The case-ignorable characters (marks, modifier letters, some punctuation).
\* (The grave accent U+0060 is one too; a string of this module cannot hold it.)
CaseIgnorable ==
    { "'", ".", ":", "^", "¨", "­", "¯", "´", "·", "¸", "ʰ", "ʱ", "ʲ", "ʳ", "ʴ",
      "ʵ", "ʶ", "ʷ", "ʸ", "ʹ", "ʺ", "ʻ", "ʼ", "ʽ", "ʾ", "ʿ", "ˀ", "ˁ", "˂", "˃", "˄",
      "˅", "ˆ", "ˇ", "ˈ", "ˉ", "ˊ", "ˋ", "ˌ", "ˍ", "ˎ", "ˏ", "ː", "ˑ", "˒", "˓", "˔",
      "˕", "˖", "˗", "˘", "˙", "˚", "˛", "˜", "˝", "˞", "˟", "ˠ", "ˡ", "ˢ", "ˣ", "ˤ",
      "˥", "˦", "˧", "˨", "˩", "˪", "˫", "ˬ", "˭", "ˮ", "˯", "˰", "˱", "˲", "˳", "˴",
      "˵", "˶", "˷", "˸", "˹", "˺", "˻", "˼", "˽", "˾", "˿", "΄", "΅", "·", "҃", "҄",
      "҅", "҆", "҇", "҈", "҉", "֑", "֒", "֓", "֔", "֕", "֖", "֗", "֘", "֙", "֚", "֛",
      "֜", "֝", "֞", "֟", "֠", "֡", "֢", "֣", "֤", "֥", "֦", "֧", "֨", "֩", "֪", "֫",
      "֬", "֭", "֮", "֯", "ְ", "ֱ", "ֲ", "ֳ", "ִ", "ֵ", "ֶ", "ַ", "ָ", "ֹ", "ֺ", "ֻ",
      "ּ", "ֽ", "ֿ", "ׁ", "ׂ", "ׄ", "ׅ", "ׇ", "״", "ۖ", "ۗ", "ۘ", "ۙ", "ۚ", "ۛ", "ۜ",
      "۝", "۟", "۠", "ۡ", "ۢ", "ۣ", "ۤ", "ۥ", "ۦ", "ۧ", "ۨ", "۪", "۫", "۬", "ۭ", "ަ",
      "ާ", "ި", "ީ", "ު", "ޫ", "ެ", "ޭ", "ޮ", "ޯ", "ް", "߫", "߬", "߭", "߮", "߯", "߰",
      "߱", "߲", "߳", "ߴ", "ߵ", "ߺ", "߽", "࢈", "࢐", "࢑", "࢘", "࢙", "࢚", "࢛", "࢜", "࢝",
      "࢞", "࢟", "ࣉ", "࣊", "࣋", "࣌", "࣍", "࣎", "࣏", "࣐", "࣑", "࣒", "࣓", "ࣔ", "ࣕ", "ࣖ",
      "ࣗ", "ࣘ", "ࣙ", "ࣚ", "ࣛ", "ࣜ", "ࣝ", "ࣞ", "ࣟ", "࣠", "࣡", "࣢", "ࣣ", "ࣤ", "ࣥ", "ࣦ",
      "ࣧ", "ࣨ", "ࣩ", "࣪", "࣫", "࣬", "࣭", "࣮", "࣯", "ࣰ", "ࣱ", "ࣲ", "ࣳ", "ࣴ", "ࣵ", "ࣶ",
      "ࣷ", "ࣸ", "ࣹ", "ࣺ", "ࣻ", "ࣼ", "ࣽ", "ࣾ", "ࣿ", "ঁ", "়", "ু", "ূ", "ৃ", "ৄ", "্",
      "ৢ", "ৣ", "৾", "ઁ", "ં", "઼", "ુ", "ૂ", "ૃ", "ૄ", "ૅ", "ે", "ૈ", "્", "ૢ", "ૣ",
      "ૺ", "ૻ", "ૼ", "૽", "૾", "૿", "ஂ", "ீ", "்", "ಁ", "಼", "ಿ", "ೆ", "ೌ", "್", "ೢ",
      "ೣ", "ඁ", "්", "ි", "ී", "ු", "ූ", "ັ", "ິ", "ີ", "ຶ", "ື", "ຸ", "ູ", "຺", "ົ",
      "ຼ", "ໆ", "່", "້", "໊", "໋", "໌", "ໍ", "ྀ", "ཱྀ", "ྂ", "ྃ", "྄", "྆", "྇", "ྍ",
      "ྎ", "ྏ", "ྐ", "ྑ", "ྒ", "ྒྷ", "ྔ", "ྕ", "ྖ", "ྗ", "ྙ", "ྚ", "ྛ", "ྜ", "ྜྷ", "ྞ",
      "ྟ", "ྠ", "ྡ", "ྡྷ", "ྣ", "ྤ", "ྥ", "ྦ", "ྦྷ", "ྨ", "ྩ", "ྪ", "ྫ", "ྫྷ", "ྭ", "ྮ",
      "ྯ", "ྰ", "ྱ", "ྲ", "ླ", "ྴ", "ྵ", "ྶ", "ྷ", "ྸ", "ྐྵ", "ྺ", "ྻ", "ྼ", "࿆", "ႂ",
      "ႅ", "ႆ", "ႍ", "ႝ", "ჼ", "឴", "឵", "ិ", "ី", "ឹ", "ឺ", "ុ", "ូ", "ួ", "ំ", "៉",
      "៊", "់", "៌", "៍", "៎", "៏", "័", "៑", "្", "៓", "ៗ", "៝", "ᢅ", "ᢆ", "ᢩ", "ᪧ",
      "᪰", "᪱", "᪲", "᪳", "᪴", "᪵", "᪶", "᪷", "᪸", "᪹", "᪺", "᪻", "᪼", "᪽", "᪾", "ᪿ",
      "ᫀ", "᫁", "᫂", "᫃", "᫄", "᫅", "᫆", "᫇", "᫈", "᫉", "᫊", "᫋", "ᫌ", "ᫍ", "ᫎ", "ᮀ",
      "ᮁ", "ᮢ", "ᮣ", "ᮤ", "ᮥ", "ᮨ", "ᮩ", "᮫", "ᮬ", "ᮭ", "᯦", "ᯨ", "ᯩ", "ᯭ", "ᯯ", "ᯰ",
      "ᯱ", "᳐", "᳑", "᳒", "᳔", "᳕", "᳖", "᳗", "᳘", "᳙", "᳚", "᳛", "᳜", "᳝", "᳞", "᳟",
      "᳠", "᳢", "᳣", "᳤", "᳥", "᳦", "᳧", "᳨", "᳭", "᳴", "᳸", "᳹", "ᶛ", "ᶜ", "ᶝ", "ᶞ",
      "ᶟ", "ᶠ", "ᶡ", "ᶢ", "ᶣ", "ᶤ", "ᶥ", "ᶦ", "ᶧ", "ᶨ", "ᶩ", "ᶪ", "ᶫ", "ᶬ", "ᶭ", "ᶮ",
      "ᶯ", "ᶰ", "ᶱ", "ᶲ", "ᶳ", "ᶴ", "ᶵ", "ᶶ", "ᶷ", "ᶸ", "ᶹ", "ᶺ", "ᶻ", "ᶼ", "ᶽ", "ᶾ",
      "ᶿ", "᷀", "᷁", "᷂", "᷃", "᷄", "᷅", "᷆", "᷇", "᷈", "᷉", "᷊", "᷋", "᷌", "᷍", "᷎",
      "᷏", "᷐", "᷑", "᷒", "ᷓ", "ᷔ", "ᷕ", "ᷖ", "ᷗ", "ᷘ", "ᷙ", "ᷚ", "ᷛ", "ᷜ", "ᷝ", "ᷞ",
      "ᷟ", "ᷠ", "ᷡ", "ᷢ", "ᷣ", "ᷤ", "ᷥ", "ᷦ", "ᷧ", "ᷨ", "ᷩ", "ᷪ", "ᷫ", "ᷬ", "ᷭ", "ᷮ",
      "ᷯ", "ᷰ", "ᷱ", "ᷲ", "ᷳ", "ᷴ", "᷵", "᷶", "᷷", "᷸", "᷹", "᷺", "᷻", "᷼", "᷽", "᷾",
      "᷿", "᾽", "᾿", "῀", "῁", "῍", "῎", "῏", "῝", "῞", "῟", "῭", "΅", "`", "´", "῾",
      "ₐ", "ₑ", "ₒ", "ₓ", "ₔ", "ₕ", "ₖ", "ₗ", "ₘ", "ₙ", "ₚ", "ₛ", "ₜ", "⃐", "⃑", "⃒",
      "⃓", "⃔", "⃕", "⃖", "⃗", "⃘", "⃙", "⃚", "⃛", "⃜", "⃝", "⃞", "⃟", "⃠", "⃡", "⃢",
      "⃣", "⃤", "⃥", "⃦", "⃧", "⃨", "⃩", "⃪", "⃫", "⃬", "⃭", "⃮", "⃯", "⃰", "⳯", "⳰",
      "⳱", "ⷠ", "ⷡ", "ⷢ", "ⷣ", "ⷤ", "ⷥ", "ⷦ", "ⷧ", "ⷨ", "ⷩ", "ⷪ", "ⷫ", "ⷬ", "ⷭ", "ⷮ",
      "ⷯ", "ⷰ", "ⷱ", "ⷲ", "ⷳ", "ⷴ", "ⷵ", "ⷶ", "ⷷ", "ⷸ", "ⷹ", "ⷺ", "ⷻ", "ⷼ", "ⷽ", "ⷾ",
      "ⷿ", "゙", "゚", "゛", "゜", "ゝ", "ゞ", "ー", "ヽ", "ヾ", "ꓸ", "ꓹ", "ꓺ", "ꓻ", "ꓼ", "ꓽ",
      "ꚜ", "ꚝ", "ꚞ", "ꚟ", "꛰", "꛱", "ꞈ", "꞉", "꞊", "ꟲ", "ꟳ", "ꟴ", "ꟸ", "ꟹ", "꣄", "ꣅ",
      "꣠", "꣡", "꣢", "꣣", "꣤", "꣥", "꣦", "꣧", "꣨", "꣩", "꣪", "꣫", "꣬", "꣭", "꣮", "꣯",
      "꣰", "꣱", "ꣿ", "ꦀ", "ꦁ", "ꦂ", "꦳", "ꦶ", "ꦷ", "ꦸ", "ꦹ", "ꦼ", "ꦽ", "ꧏ", "ꧥ", "ꧦ",
      "ꪰ", "ꪲ", "ꪳ", "ꪴ", "ꪷ", "ꪸ", "ꪾ", "꪿", "꫁", "ꫝ", "ꫬ", "ꫭ", "ꫳ", "ꫴ", "꫶", "ꯥ",
      "ꯨ", "꯭", "﮲", "﮳", "﮴", "﮵", "﮶", "﮷", "﮸", "﮹", "﮺", "﮻", "﮼", "﮽", "﮾", "﮿",
      "﯀", "﯁", "﯂", "﻿", "ﾞ", "ﾟ", "￣", "￹", "￺", "￻" }

\* The letters beyond Latin-1 that str.lower() changes, as a set.
Capitals == {UpperOther[i] : i \in DOMAIN UpperOther}

\* str.lower() of one character.  (Of the letters that a string of this module
\* cannot hold, which str.lower() lowers too, nothing is said.)
LowerChar(c) ==
    IF \E i \in 1..26 : UpperLetters[i] = c
    THEN LowerLetters[CHOOSE i \in 1..26 : UpperLetters[i] = c]
    ELSE IF \E i \in DOMAIN UpperLatin1 : UpperLatin1[i] = c
    THEN LowerLatin1[CHOOSE i \in DOMAIN UpperLatin1 : UpperLatin1[i] = c]
    ELSE IF c \in Capitals
    THEN LowerOther[CHOOSE i \in DOMAIN UpperOther : UpperOther[i] = c]
    ELSE c

\* The capital sigma at position i of s ends a word: before it, over
\* case-ignorable characters, stands a cased character, and after it, over
\* case-ignorable characters, stands none.
FinalSigma(s, i) ==
    /\ \E j \in 1..(i - 1) :
          s[j] \in Cased /\ \A k \in (j + 1)..(i - 1) : s[k] \in CaseIgnorable
    /\ ~\E j \in (i + 1)..Len(s) :
          s[j] \in Cased /\ \A k \in (i + 1)..(j - 1) : s[k] \in CaseIgnorable

\* str.lower(): character by character, but a capital sigma that ends a word
\* becomes the final small sigma.
Lower(s) ==
    [i \in DOMAIN s |-> IF s[i] = "Σ" /\ FinalSigma(s, i) THEN "ς" ELSE LowerChar(s[i])]

\* string.translate(str.maketrans("", "", "$,%()"))
StripChars == {"$", ",", "%", "(", ")"}

Translate(s) == SelectSeq(s, LAMBDA c : c \notin StripChars)

NoException == ""

\* The characters str.strip() and Decimal() remove at both ends: the ASCII
\* whitespace (space, \t, \n, \r, \f, vertical tab), the separators U+001C to
\* U+001F, and of the Unicode spaces U+0085, U+00A0 and U+1680.  (The spaces
\* U+2000 to U+200A, U+2028, U+2029, U+202F, U+205F and U+3000, which are removed
\* as well, cannot be written in a string of this module and are not modelled.)
Whitespace ==
    { " ", "\t", "\n", "\r", "\f", "", "", "", "", "",
      "", " ", " " }

RECURSIVE LStrip(_)
LStrip(s) == IF s # <<>> /\ s[1] \in Whitespace THEN LStrip(Tail(s)) ELSE s

RECURSIVE RStrip(_)
RStrip(s) ==
    IF s # <<>> /\ s[Len(s)] \in Whitespace THEN RStrip(SubSeq(s, 1, Len(s) - 1)) ELSE s

Strip(s) == RStrip(LStrip(s))

\* The text Decimal() matches against its grammar: surrounding whitespace is
\* stripped, underscores are dropped, letters are read in either case.
DecimalText(t) == AsciiLower(SelectSeq(Strip(t), LAMBDA c : c # "_"))

\* A text without its sign.
Unsigned(t) == IF t # <<>> /\ t[1] \in {"-", "+"} THEN Tail(t) ELSE t

IsDigits(s) == \A i \in DOMAIN s : IsDigit(s[i])

IsInfinity(u) == u \in { <<"i", "n", "f">>, <<"i", "n", "f", "i", "n", "i", "t", "y">> }

\* "nan" and "snan", each with an optional payload of digits
IsNaN(u) ==
    /\ Len(u) >= 3
    /\ SubSeq(u, 1, 3) = <<"n", "a", "n">>
    /\ IsDigits(SubSeq(u, 4, Len(u)))

IsSNaN(u) ==
    /\ Len(u) >= 4
    /\ SubSeq(u, 1, 4) = <<"s", "n", "a", "n">>
    /\ IsDigits(SubSeq(u, 5, Len(u)))

\* Positions of the exponent marker.
EPos(u) == {i \in DOMAIN u : u[i] = "e"}

\* The text before the first exponent marker (all of it when there is none).
MantissaOf(u) ==
    IF EPos(u) = {} THEN u
    ELSE SubSeq(u, 1, (CHOOSE i \in EPos(u) : \A j \in EPos(u) : i <= j) - 1)

\* The text after the first exponent marker.
ExponentOf(u) ==
    IF EPos(u) = {} THEN <<>>
    ELSE SubSeq(u, (CHOOSE i \in EPos(u) : \A j \in EPos(u) : i <= j) + 1, Len(u))

\* digits [. [digits]] or . digits
IsMantissa(m) ==
    /\ Cardinality({i \in DOMAIN m : m[i] = "."}) <= 1
    /\ \A i \in DOMAIN m : m[i] = "." \/ IsDigit(m[i])
    /\ \E i \in DOMAIN m : IsDigit(m[i])

\* [sign] digits
IsExponent(x) == IsDigits(Unsigned(x)) /\ x \notin {<<>>, <<"+">>, <<"-">>}

IsFinite(u) ==
    /\ IsMantissa(MantissaOf(u))
    /\ EPos(u) # {} => IsExponent(ExponentOf(u))

\* The unsigned text is one of the forms Decimal() reads.
IsNumeric(u) == IsInfinity(u) \/ IsNaN(u) \/ IsSNaN(u) \/ IsFinite(u)

\* Decimal(text) succeeds: [sign] (digits [. digits] [e [sign] digits] | inf |
\* infinity | nan [digits] | snan [digits]), digits being the decimal digits
\* of any script.
DecimalParses(t) == IsNumeric(Unsigned(DecimalText(t)))

\* Digits of the mantissa after its point.
FracDigits(m) ==
    IF \E i \in DOMAIN m : m[i] = "."
    THEN Len(m) - (CHOOSE i \in DOMAIN m : m[i] = ".")
    ELSE 0

\* int() of the exponent text ("" is 0)
ExponentValue(x) ==
    IF x # <<>> /\ x[1] = "-" THEN -DigitsToNat(Tail(x)) ELSE DigitsToNat(Unsigned(x))

\* The finite number  [-] m e x : the value is coef / 10^places (places < 0
\* after a positive exponent).
FiniteValue(neg, m, x) ==
    [ kind |-> "finite",
      coef |-> (IF neg THEN -1 ELSE 1) * DigitsToNat(SelectSeq(m, LAMBDA c : c # ".")),
      places |-> FracDigits(m) - ExponentValue(x) ]

NumericValue(neg, u) ==
    IF IsInfinity(u) THEN [kind |-> "Infinity", coef |-> 0, places |-> 0]
    ELSE IF IsNaN(u) THEN [kind |-> "NaN", coef |-> 0, places |-> 0]
    ELSE IF IsSNaN(u) THEN [kind |-> "sNaN", coef |-> 0, places |-> 0]
    ELSE FiniteValue(neg, MantissaOf(u), ExponentOf(u))

SignedValue(d) == NumericValue(d # <<>> /\ d[1] = "-", Unsigned(d))

\* Decimal(text), for a text that parses: its kind and, for a finite number,
\* coefficient and number of fractional digits.
DecimalValue(t) == SignedValue(DecimalText(t))

_decimalParses(string) == DecimalParses(Translate(string))

_decimal(string) == DecimalValue(Translate(string))

\* Digits of the decimal numeral of a natural number.
NDigits(n) == Len(NatToDigits(n))

Abs(n) == IF n < 0 THEN -n ELSE n

\* int(d.quantize(Decimal("0.01"), ROUND_DOWN) * 100) of a finite d: the number of
\* cents, truncated toward zero.  (Numbers are machine integers here: a text
\* worth more than 2^31 - 1 cents is outside the model.)
QuantizeDownCents(d) ==
    IF d.coef = 0 THEN 0
    ELSE IF d.places <= 2 THEN d.coef * Pow10(2 - d.places)
    ELSE IF d.places - 2 >= NDigits(Abs(d.coef)) THEN 0
    ELSE IF d.coef >= 0 THEN d.coef \div Pow10(d.places - 2)
    ELSE -((-d.coef) \div Pow10(d.places - 2))

\* What int(d.quantize(Decimal("0.01"), ROUND_DOWN) * 100) raises: quantize() on
\* an infinity, a signalling NaN or a number whose quantized coefficient has more
\* than 28 digits (the default context's precision), int() on a NaN.
QuantizeException(d) ==
    IF d.kind \in {"Infinity", "sNaN"} THEN "InvalidOperation"
    ELSE IF d.kind = "NaN" THEN "ValueError"
    ELSE IF d.coef # 0 /\ NDigits(Abs(d.coef)) - d.places + 2 > 28 THEN "InvalidOperation"
    ELSE NoException

\* The exception _cents raises ("": none); Decimal() raises on a text that is
\* no number.
_centsException(dollars) ==
    IF ~_decimalParses(dollars) THEN "InvalidOperation"
    ELSE QuantizeException(_decimal(dollars))

_cents(dollars) == QuantizeDownCents(_decimal(dollars))

\* str(Decimal(cents).quantize(Decimal("0.01")) / 100)
_dollars(cents) ==
    LET mag == IF cents < 0 THEN -cents ELSE cents
        frac == mag % 100
    IN  (IF cents < 0 THEN <<"-">> ELSE <<>>)
        \o NatToDigits(mag \div 100)
        \o <<".">>
        \o <<Digits[(frac \div 10) + 1], Digits[(frac % 10) + 1]>>

\* _confirm with a prefix test instead of equality: "yes" counts as a yes
_confirm_prefix(response) == response = <<>> \/ Lower(response)[1] = "y"

\* _confirm, given what input() returned
_confirm(response) == response = <<>> \/ Lower(response) = <<"y">>

_validate_action(action) == action \in {"BUY", "SELL"}

\* _validate_unit that rejects nothing
_validate_unit_any(unit) == unit = unit

_validate_unit(unit) == unit \in {"SHARES", "DOLLARS"}

-----------------------------------------------------------------------------
(* Execution of one method call.  A run record carries what the call has    *)
(* done so far; once exc is set, every later step leaves the run unchanged  *)
(* (the exception is travelling up to the method's except clause).          *)

Begin(failAt) ==
    [ ev |-> <<>>,          \* interactions so far: <<operation, target, "ok" | "raised">>
      exc |-> NoException,  \* the exception raised inside the call, if any
      failAt |-> failAt,    \* the environment makes interaction failAt.at raise failAt.exc
      badText |-> 0,        \* the badText-th text read does not convert (0: none); read methods
      ret |-> "",           \* value of the return statement reached
      limit |-> <<>>,       \* text typed into the limit price field
      resp |-> <<>>,        \* what input() returned, prompt by prompt
      shown |-> <<>>,       \* innerText of the bid/ask elements read
      items |-> <<>>,       \* the dropdown entries found
      selected |-> "" ]     \* the dropdown entry clicked

Raise(st, e) == IF st.exc # NoException THEN st ELSE [st EXCEPT !.exc = e]

Return(st, value) == IF st.exc # NoException THEN st ELSE [st EXCEPT !.ret = value]

\* Exceptions that "except Exception" does not catch.
NotAnException == {"SystemExit", "KeyboardInterrupt"}

\* What an interaction can raise.  A wait for an element (WebDriverWait.until)
\* times out, or the browser reports an error while it is polled; input() meets
\* the end of its input; a call on the browser or on an element is answered by
\* an error of the browser; the object given as driver has no method get or
\* quit (AttributeError), and likewise the innerText that get_attribute returned
\* was None.  The user can interrupt (Ctrl-C) whatever the program is waiting
\* for, a pause (sleep) included: the interrupt is placed at the interaction or
\* pause that is under way.
ExceptionsOf(op) ==
    CASE op = "find" -> {"TimeoutException", "WebDriverException", "KeyboardInterrupt"}
      [] op = "input" -> {"EOFError", "KeyboardInterrupt"}
      [] op = "sleep" -> {"KeyboardInterrupt"}
      [] op \in {"get", "quit", "get_attribute"} ->
           {"WebDriverException", "AttributeError", "KeyboardInterrupt"}
      [] OTHER -> {"WebDriverException", "KeyboardInterrupt"}

\* No interaction raises.
Nowhere == [at |-> 0, exc |-> NoException]

\* Do with one retry: the interaction that raises is attempted again and succeeds
Do_retry(st, op, target) ==
    IF st.exc # NoException THEN st
    ELSE IF Len(st.ev) + 1 = st.failAt.at
    THEN [st EXCEPT !.ev = @ \o << <<op, target, "raised">>, <<op, target, "ok">> >>]
    ELSE [st EXCEPT !.ev = Append(@, <<op, target, "ok">>)]

\* elements[i] on the list of n elements that find_elements returned
Index(st, i, n) == IF i >= n THEN Raise(st, "IndexError") ELSE st

\* One interaction with the browser, a page element or the terminal: it is skipped
\* when an exception is already travelling; otherwise it is attempted, and raises
\* when the environment says so.
Do(st, op, target) ==
    IF st.exc # NoException THEN st
    ELSE IF Len(st.ev) + 1 = st.failAt.at
    THEN [st EXCEPT !.ev = Append(@, <<op, target, "raised">>), !.exc = st.failAt.exc]
    ELSE [st EXCEPT !.ev = Append(@, <<op, target, "ok">>)]

\* sleep(self.__delay): a pause, recorded with the element it is made for
Sleep(st, element) == Do(st, "sleep", element)

__by_class_name(st, class_name) == Do(st, "find", class_name)

__by_css_selector(st, css_selector) == Do(st, "find", css_selector)

__by_id(st, id) == Do(st, "find", id)

\* element.get_attribute("innerText").strip()
_string(st, element) == Do(st, "get_attribute", element)

\* input(prompt): the response is recorded when the prompt was answered
Input(st, prompt, response) ==
    LET s == Do(st, "input", prompt)
    IN  IF st.exc = NoException /\ s.exc = NoException
        THEN [s EXCEPT !.resp = Append(@, response)]
        ELSE s

__stock_set_account(st) == Do(st, "get", "TRADE_STOCK_URL?ACCOUNT")

__mutual_fund_set_account(st) == Do(st, "get", "TRADE_MUTUAL_FUND_URL?ACCOUNT")

__set_symbol(st, id) ==
    LET s1 == __by_id(st, id)
        s2 == Do(s1, "clear", id)
        s3 == Do(s2, "send_keys", id)
    IN  Do(s3, "send_keys_return", id)

__stock_set_symbol(st) == __set_symbol(st, "eq-ticket-dest-symbol")

__mutual_fund_set_symbol(st) == __set_symbol(st, "mf-ticket-dest-symbol-Symbol")

__mutual_fund_set_buy_symbol(st) == __set_symbol(st, "mf-ticket-dest-symbol-Fund to Buy")

__stock_set_action(st, action) ==
    IF action = "BUY"
    THEN Do(__by_css_selector(st, "action-buy"), "click", "action-buy")
    ELSE IF action = "SELL"
    THEN Do(__by_css_selector(st, "action-sell"), "click", "action-sell")
    ELSE st

\* The for loop of __mutual_fund_set_action from the i-th dropdown entry on.
\* Each of the three comparisons reads the entry's text again.
RECURSIVE SelectItem(_, _, _)
SelectItem(st, action, i) ==
    IF st.exc # NoException \/ i > Len(st.items) THEN st
    ELSE LET s1 == _string(st, "dropdownlist_items--item")
             s2 == _string(s1, "dropdownlist_items--item")
             s3 == _string(s2, "dropdownlist_items--item")
             buy == st.items[i] = "Buy" /\ action = "BUY"
             sell == st.items[i] = "Sell" /\ action = "SELL"
             exchange == st.items[i] = "Exchange" /\ action = "None"
         IN  IF s3.exc # NoException THEN s3
             ELSE IF buy \/ sell \/ exchange
             THEN LET s4 == Do(s3, "click", st.items[i])
                  IN  IF s4.exc # NoException THEN s4
                      ELSE [s4 EXCEPT !.selected = st.items[i]]
             ELSE SelectItem(s3, action, i + 1)

\* nButtons: how many elements find_elements(By.ID, "mf-dropdownlist-button") returns
__mutual_fund_set_action(st, action, nButtons, items) ==
    LET s1 == __by_class_name(st, "mf-ticket__action-dropdown")
        s2 == Do(s1, "find_elements", "mf-dropdownlist-button")
        s3 == Do(Index(s2, 0, nButtons), "click", "mf-dropdownlist-button")
        s4 == __by_class_name(s3, "dropdownlist_items")
        s5 == Do(s4, "find_elements", "dropdownlist_items--item")
        s6 == IF s5.exc # NoException THEN s5 ELSE [s5 EXCEPT !.items = items]
        s7 == Sleep(s6, "dropdownlist_items")
        s8 == SelectItem(s7, action, 1)
    IN  Sleep(s8, "dropdownlist_items")

__stock_set_unit(st, unit) ==
    IF unit = "SHARES"
    THEN Do(__by_css_selector(st, "quantity-type-shares"), "click", "quantity-type-shares")
    ELSE IF unit = "DOLLARS"
    THEN Do(__by_css_selector(st, "quantity-type-dollars"), "click", "quantity-type-dollars")
    ELSE st

__mutual_fund_set_unit(st, unit) ==
    IF unit = "SHARES"
    THEN Do(__by_css_selector(st, "action-shares"), "click", "action-shares")
    ELSE IF unit = "DOLLARS"
    THEN Do(__by_css_selector(st, "action-dollar"), "click", "action-dollar")
    ELSE st

__set_quantity(st, id) ==
    LET s1 == __by_id(st, id)
        s2 == Do(s1, "clear", id)
    IN  Do(s2, "send_keys", id)

__stock_set_quantity(st) == __set_quantity(st, "eqt-shared-quantity")

__mutual_fund_set_quantity(st) == __set_quantity(st, "mf-shared-quantity")

__stock_set_market(st) == Do(__by_css_selector(st, "market-yes"), "click", "market-yes")

__stock_set_limit(st, limit) ==
    LET s1 == Do(__by_css_selector(st, "market-no"), "click", "market-no")
        s2 == __by_id(s1, "eqt-ordsel-limit-price-field")
        s3 == Do(s2, "clear", "eqt-ordsel-limit-price-field")
        s4 == Do(s3, "send_keys", "eqt-ordsel-limit-price-field")
    IN  IF s4.exc # NoException THEN s4 ELSE [s4 EXCEPT !.limit = limit]

__stock_set_gtc(st) == Do(__by_css_selector(st, "action-gtc"), "click", "action-gtc")

\* _cents(text) on the text just read: it raises, or its value joins the tuple.
ReadNumber(st, text) ==
    IF st.exc # NoException THEN st
    ELSE IF _centsException(text) # NoException THEN Raise(st, _centsException(text))
    ELSE [st EXCEPT !.shown = Append(@, text)]

\* The generator of __stock_bid_ask from the i-th element on: read the text,
\* convert it with _cents.
RECURSIVE ReadNumbers(_, _, _)
ReadNumbers(st, texts, i) ==
    IF st.exc # NoException \/ i > Len(texts) THEN st
    ELSE ReadNumbers(ReadNumber(_string(st, "number"), texts[i]), texts, i + 1)

\* The run after __stock_bid_ask; the tuple it returns is BidAsk(run).
__stock_bid_ask(st, texts) ==
    LET s1 == __by_class_name(st, "eq-ticket__quote--blocks-container")
        s2 == Do(s1, "find_elements", "number")
        s3 == ReadNumbers(s2, texts, 1)
    IN  IF s3.exc # NoException THEN s3
        ELSE IF Len(texts) # 2 THEN Raise(s3, "RuntimeError")
        ELSE s3

BidAsk(st) == [i \in DOMAIN st.shown |-> _cents(st.shown[i])]

__click_preview_order(st) ==
    Do(__by_id(Sleep(st, "previewOrderBtn"), "previewOrderBtn"), "click", "previewOrderBtn")

__click_place_order(st) ==
    Do(__by_id(st, "placeOrderBtn"), "click", "placeOrderBtn")

\* __place_order without the test of the first prompt's answer
__place_order_unconfirmed(st, r1, r2) ==
    LET s1 == __click_preview_order(st)
        s2 == Input(s1, "Place order", r1)
        s3 == __click_place_order(s2)
        s4 == Input(s3, "Success", r2)
    IN  IF s4.exc # NoException THEN s4
        ELSE Return(s4, IF _confirm(r2) THEN "True" ELSE "False")

__place_order(st, r1, r2) ==
    LET s1 == __click_preview_order(st)
        s2 == Input(s1, "Place order", r1)
    IN  IF s2.exc # NoException THEN s2
        ELSE IF ~_confirm(r1) THEN Return(s2, "False")
        ELSE LET s3 == __click_place_order(s2)
                 s4 == Input(s3, "Success", r2)
             IN  IF s4.exc # NoException THEN s4
                 ELSE Return(s4, IF _confirm(r2) THEN "True" ELSE "False")

-----------------------------------------------------------------------------
(* How a method call ends. *)

\* The call ended in its argument checks, before its try block.
ArgumentError(e) ==
    [ ev |-> <<>>, ret |-> "", exc |-> e, caught |-> NoException, logged |-> "",
      limit |-> <<>>, resp |-> <<>>, shown |-> <<>>, items |-> <<>>, selected |-> "" ]

\* A call that an exception which is no Exception leaves: no except clause of
\* the Driver catches it, nothing is logged.
Uncaught(st) ==
    [ ev |-> st.ev, ret |-> "", exc |-> st.exc, caught |-> NoException, logged |-> "",
      limit |-> st.limit, resp |-> st.resp, shown |-> st.shown, items |-> st.items,
      selected |-> st.selected ]

\* The except clause of an order method with "raise" in place of "return False"
OrderResult_reraise(st, message) ==
    IF st.exc \in NotAnException THEN Uncaught(st)
    ELSE [ ev |-> st.ev,
           ret |-> IF st.exc # NoException THEN "" ELSE st.ret,
           exc |-> st.exc,
           caught |-> st.exc,
           logged |-> IF st.exc # NoException THEN message ELSE "",
           limit |-> st.limit, resp |-> st.resp, shown |-> st.shown, items |-> st.items,
           selected |-> st.selected ]

\* try: ... return <value>  except Exception: logger.exception(message); return False
OrderResult(st, message) ==
    IF st.exc \in NotAnException THEN Uncaught(st)
    ELSE [ ev |-> st.ev,
           ret |-> IF st.exc # NoException THEN "False" ELSE st.ret,
           exc |-> NoException,
           caught |-> st.exc,
           logged |-> IF st.exc # NoException THEN message ELSE "",
           limit |-> st.limit, resp |-> st.resp, shown |-> st.shown, items |-> st.items,
           selected |-> st.selected ]

\* The except clause of a read method without its "raise": the method returns None
ReadResult_swallow(st, message) ==
    IF st.exc \in NotAnException THEN Uncaught(st)
    ELSE [ ev |-> st.ev,
           ret |-> IF st.exc # NoException THEN "None" ELSE st.ret,
           exc |-> NoException,
           caught |-> st.exc,
           logged |-> IF st.exc # NoException THEN message ELSE "",
           limit |-> st.limit, resp |-> st.resp, shown |-> st.shown, items |-> st.items,
           selected |-> st.selected ]

\* try: ... return <value>  except Exception: logger.exception(message); raise
ReadResult(st, message) ==
    IF st.exc \in NotAnException THEN Uncaught(st)
    ELSE [ ev |-> st.ev,
           ret |-> IF st.exc # NoException THEN "" ELSE st.ret,
           exc |-> st.exc,
           caught |-> st.exc,
           logged |-> IF st.exc # NoException THEN message ELSE "",
           limit |-> st.limit, resp |-> st.resp, shown |-> st.shown, items |-> st.items,
           selected |-> st.selected ]

\* The ways the environment can make a call fail: nowhere, or at one of the
\* interactions of the call's run when nothing fails, with an exception that
\* interaction can raise.
FailPoints(clean) ==
    {Nowhere} \cup
    UNION { { [at |-> i, exc |-> e] : e \in ExceptionsOf(clean.ev[i][1]) } :
            i \in 1..Len(clean.ev) }

-----------------------------------------------------------------------------
(* The order methods.  failAt, r1, r2, texts and items are the environment: *)
(* the failing interaction, the responses to the two prompts, the bid/ask   *)
(* texts on the page and the dropdown entries.                              *)

market_order(action, unit, failAt, r1, r2) ==
    IF ~_validate_action(action) THEN ArgumentError("ValueError")
    ELSE IF ~_validate_unit(unit) THEN ArgumentError("ValueError")
    ELSE LET s1 == __stock_set_account(Begin(failAt))
             s2 == __stock_set_symbol(s1)
             s3 == __stock_set_action(s2, action)
             s4 == __stock_set_unit(s3, unit)
             s5 == __stock_set_quantity(s4)
             s6 == __stock_set_market(s5)
         IN  OrderResult(__place_order(s6, r1, r2), "market order failed")

limit_order(action, unit, limit, failAt, r1, r2) ==
    IF ~_validate_action(action) THEN ArgumentError("ValueError")
    ELSE IF ~_validate_unit(unit) THEN ArgumentError("ValueError")
    ELSE LET s1 == __stock_set_account(Begin(failAt))
             s2 == __stock_set_symbol(s1)
             s3 == __stock_set_action(s2, action)
             s4 == __stock_set_unit(s3, unit)
             s5 == __stock_set_quantity(s4)
             s6 == __stock_set_limit(s5, limit)
         IN  OrderResult(__place_order(s6, r1, r2), "limit order failed")

marketable_limit_order(action, unit, buffer, texts, failAt, r1, r2) ==
    IF ~_validate_action(action) THEN ArgumentError("ValueError")
    ELSE IF ~_validate_unit(unit) THEN ArgumentError("ValueError")
    ELSE IF buffer < 0 THEN ArgumentError("ValueError")
    ELSE LET s1 == __stock_set_account(Begin(failAt))
             s2 == __stock_set_symbol(s1)
             s3 == __stock_set_action(s2, action)
             s4 == __stock_set_unit(s3, unit)
             s5 == __stock_set_quantity(s4)
             s6 == __stock_bid_ask(s5, texts)
             bid == BidAsk(s6)[1]
             ask == BidAsk(s6)[2]
             s7 == IF s6.exc # NoException THEN s6
                   ELSE IF action = "BUY" THEN __stock_set_limit(s6, _dollars(ask + buffer))
                   ELSE IF action = "SELL" THEN __stock_set_limit(s6, _dollars(bid - buffer))
                   ELSE Raise(s6, "UnboundLocalError")
         IN  OrderResult(__place_order(s7, r1, r2), "marketable limit order failed")

gtc_order(action, limit, failAt, r1, r2) ==
    IF ~_validate_action(action) THEN ArgumentError("ValueError")
    ELSE LET s1 == __stock_set_account(Begin(failAt))
             s2 == __stock_set_symbol(s1)
             s3 == __stock_set_action(s2, action)
             s4 == __stock_set_unit(s3, "SHARES")
             s5 == __stock_set_quantity(s4)
             s6 == __stock_set_limit(s5, limit)
             s7 == __stock_set_gtc(s6)
         IN  OrderResult(__place_order(s7, r1, r2), "good-til-canceled order failed")

buy_mutual_fund(nButtons, items, failAt, r1, r2) ==
    LET s1 == __mutual_fund_set_account(Begin(failAt))
        s2 == __mutual_fund_set_symbol(s1)
        s3 == __mutual_fund_set_action(s2, "BUY", nButtons, items)
        s4 == __mutual_fund_set_quantity(s3)
    IN  OrderResult(__place_order(s4, r1, r2), "mutual fund buy order failed")

sell_mutual_fund(unit, nButtons, items, failAt, r1, r2) ==
    IF ~_validate_unit(unit) THEN ArgumentError("ValueError")
    ELSE LET s1 == __mutual_fund_set_account(Begin(failAt))
             s2 == __mutual_fund_set_symbol(s1)
             s3 == __mutual_fund_set_action(s2, "SELL", nButtons, items)
             s4 == __mutual_fund_set_unit(s3, unit)
             s5 == __mutual_fund_set_quantity(s4)
         IN  OrderResult(__place_order(s5, r1, r2), "mutual fund sell order failed")

exchange_mutual_fund(unit, nButtons, items, failAt, r1, r2) ==
    IF ~_validate_unit(unit) THEN ArgumentError("ValueError")
    ELSE LET s1 == __mutual_fund_set_account(Begin(failAt))
             s2 == __mutual_fund_set_symbol(s1)
             s3 == __mutual_fund_set_action(s2, "None", nButtons, items)
             s4 == __mutual_fund_set_unit(s3, unit)
             s5 == __mutual_fund_set_quantity(s4)
             s6 == __mutual_fund_set_buy_symbol(s5)
         IN  OrderResult(__place_order(s6, r1, r2), "mutual fund exchange order failed")

-----------------------------------------------------------------------------
(* The read methods.  The texts they convert are not modelled character by  *)
(* character: the environment chooses which text read (if any) fails to     *)
(* convert (badText), in which way a bid or ask text is malformed (fault),  *)
(* and how many elements the two find_elements calls of quote() return.     *)

BeginRead(failAt, badText) == [Begin(failAt) EXCEPT !.badText = badText]

TextsRead(st) == Len(SelectSeq(st.ev, LAMBDA e : e[1] = "get_attribute" /\ e[3] = "ok"))

\* _string(element) followed by a conversion of the text (_decimal, _int, split
\* and index) that raises e when the text is not of the expected form
Convert(st, element, e) ==
    LET s == _string(st, element)
    IN  IF s.exc # NoException THEN s
        ELSE IF TextsRead(s) = s.badText THEN Raise(s, e)
        ELSE s

\* The ways a bid or ask text "<price> x <size>" can be malformed: the part before
\* the first "x" is no number, there is no "x", the part after it is no integer.
BlockFaults == {"price", "split", "size"}

\* What  _decimal(parts[0]), _int(parts[1])  raises on a malformed text.
BlockError(fault) ==
    CASE fault = "price" -> "InvalidOperation"
      [] fault = "split" -> "IndexError"
      [] fault = "size" -> "ValueError"

cash_available_to_trade(failAt, badText) ==
    LET s1 == __stock_set_account(BeginRead(failAt, badText))
        s2 == __by_class_name(s1, "funds-cash")
        s3 == Convert(s2, "funds-cash", "InvalidOperation")
    IN  ReadResult(Return(s3, "Decimal"), "cash available to trade cannot be found")

quote(nChange, nBlocks, failAt, badText, fault) ==
    LET s1 == Do(BeginRead(failAt, badText), "get", "TRADE_STOCK_URL")
        s2 == __stock_set_symbol(s1)
        s3 == _string(__by_class_name(s2, "company-title"), "company-title")
        s4 == Convert(__by_class_name(s3, "last-price"), "last-price", "InvalidOperation")
        s5 == __by_class_name(s4, "eq-ticket__quote--company-symbol--pricing")
        s6 == Do(s5, "find_elements", "eq-ticket__symbol__dollar_percent_chg_font")
        s7 == Convert(Index(s6, 0, nChange), "dollar_change", "InvalidOperation")
        s8 == Convert(Index(s7, 1, nChange), "percent_change", "InvalidOperation")
        s9 == __by_class_name(s8, "eq-ticket__quote--blocks-container")
        s10 == Do(s9, "find_elements", "block-price-layout")
        s11 == Convert(Index(s10, 0, nBlocks), "bid", BlockError(fault))
        s12 == Convert(Index(s11, 1, nBlocks), "ask", BlockError(fault))
        s13 == Convert(__by_class_name(s12, "block-volume"), "block-volume", "ValueError")
    IN  ReadResult(Return(s13, "Quote"), "quote information cannot be found")

download_positions(failAt) ==
    LET s1 == Do(Begin(failAt), "get", "POSITIONS_URL")
        s2 == __by_css_selector(s1, "Download")
        s3 == Do(s2, "click", "Download")
    IN  ReadResult(Return(s3, "None"), "positions cannot be downloaded")

-----------------------------------------------------------------------------
(* Construction and the with-scope. *)

\* No try block: what the method raises reaches the caller, nothing is logged.
Propagated(st) ==
    [ ev |-> st.ev,
      ret |-> IF st.exc # NoException THEN "" ELSE st.ret,
      exc |-> st.exc, caught |-> NoException, logged |-> "",
      limit |-> <<>>, resp |-> <<>>, shown |-> <<>>, items |-> <<>>, selected |-> "" ]

\* __init__ with "timeout < 0" for "timeout <= 0"
__init___timeout_zero(t, d) ==
    IF t < 0 THEN "ValueError"
    ELSE IF d < 0 THEN "ValueError"
    ELSE NoException

\* The exception Driver.__init__ raises ("": none)
__init__(t, d) ==
    IF t <= 0 THEN "ValueError"
    ELSE IF d < 0 THEN "ValueError"
    ELSE NoException

__enter__(failAt) ==
    Propagated(Return(Do(Begin(failAt), "get", "LOGIN_URL"), "self"))

__exit__(failAt) ==
    LET s1 == Do(Begin(failAt), "get", "LOGOUT_URL")
        s2 == Do(s1, "quit", "driver")
    IN  Propagated(Return(s2, "None"))

-----------------------------------------------------------------------------
(* The state machine: one action per public method. *)

NoCall ==
    [ method |-> "", action |-> "", unit |-> "", buffer |-> 0, limit |-> <<>>,
      bodyRaised |-> FALSE ]

Call(method, action, unit, buffer, limit) ==
    [NoCall EXCEPT !.method = method, !.action = action, !.unit = unit,
                   !.buffer = buffer, !.limit = limit]

\* bid/ask "number" elements the page may show: none, a bid, a bid and an ask,
\* or more than two elements (which then all show the same text)
NumberTexts ==
    { [i \in 1..n |-> IF i % 2 = 1 THEN b ELSE a] :
        n \in 0..2, b \in Displayed, a \in Displayed }
    \cup { [i \in 1..n |-> b] : n \in 3..MaxElements, b \in Displayed }

\* What the user may type at the second [Y/n] prompt of a call: the prompt is
\* shown only when the answer r1 to the first one confirmed.
SecondResponses(r1) == IF _confirm(r1) THEN Responses ELSE {<<>>}

\* entries the action dropdown may list: each action at most once, in any order
DropdownItems ==
    { items \in UNION { [1..n -> ItemTexts] : n \in 0..MaxItems } :
        \A i, j \in DOMAIN items : i # j => items[i] # items[j] }

\* A Driver object exists.  The Driver checks neither that its with block was
\* entered nor that it was not left: a method called after __exit__ runs as any
\* other call, and what the browser does with its commands once quit() was called
\* is, as everywhere, the environment's choice of the interaction that raises.
Usable == session \in {"built", "entered", "exited"}

NoResult == ArgumentError(NoException)

\* The caller is ready to make its next call on the Driver.
Idle == Usable /\ call = NoCall

\* The script runner is not running: the Driver is used directly.
NoMain ==
    [ pc |-> "off", userInput |-> "", script |-> "", prompts |-> 0,
      loaded |-> FALSE, executed |-> "", printed |-> <<>>, error |-> NoException ]

Init ==
    /\ main = NoMain
    /\ session = "none"
    /\ timeout = 0
    /\ delay = 0
    /\ browser = "open"
    /\ nav = <<>>
    /\ call = NoCall
    /\ out = NoResult

\* Driver(driver, timeout, delay)
Construct ==
    /\ session = "none"
    /\ \E t \in TimeoutValues, d \in DelayValues :
         /\ timeout' = t
         /\ delay' = d
         /\ session' = IF __init__(t, d) = NoException THEN "built" ELSE "none"
         /\ out' = ArgumentError(__init__(t, d))
    /\ call' = Call("__init__", "", "", 0, <<>>)
    /\ UNCHANGED <<browser, nav, main>>

\* d.__enter__(), by a with statement or called as a method: it checks nothing,
\* so a Driver is entered again after its exit, or while it is entered.  The
\* Driver is in a scope once __enter__ returned; nav starts anew with it.
Enter ==
    /\ Idle
    /\ \E failAt \in FailPoints(__enter__(Nowhere)) :
         /\ out' = __enter__(failAt)
         /\ nav' = out'.ev
         /\ session' = IF out'.exc = NoException THEN "entered" ELSE "built"
    /\ call' = Call("__enter__", "", "", 0, <<>>)
    /\ UNCHANGED <<timeout, delay, browser, main>>

\* d.__exit__(...), by a with statement whose body finished or raised, or called
\* as a method: it checks nothing, so it also runs on a Driver that was not
\* entered or was left before.  Only the exit that leaves the scope entered last
\* is recorded in nav.
Exit ==
    /\ Idle
    /\ \E failAt \in FailPoints(__exit__(Nowhere)), raised \in BOOLEAN :
         /\ out' = __exit__(failAt)
         /\ call' = [Call("__exit__", "", "", 0, <<>>) EXCEPT !.bodyRaised = raised]
         /\ nav' = IF session = "entered" THEN nav \o out'.ev ELSE nav
         /\ browser' = IF <<"quit", "driver", "ok">> \in {out'.ev[i] : i \in DOMAIN out'.ev}
                       THEN "closed" ELSE browser
    /\ session' = IF session = "entered" THEN "exited" ELSE session
    /\ UNCHANGED <<timeout, delay, main>>

CashAvailableToTrade ==
    /\ Idle
    /\ \E failAt \in FailPoints(cash_available_to_trade(Nowhere, 0)),
          badText \in 0..1 :
         out' = cash_available_to_trade(failAt, badText)
    /\ call' = Call("cash_available_to_trade", "", "", 0, <<>>)
    /\ UNCHANGED <<session, timeout, delay, browser, nav, main>>

GetQuote ==
    /\ Idle
    /\ \E nChange \in 0..2, nBlocks \in 0..2, badText \in 0..7, fault \in BlockFaults :
         \E failAt \in FailPoints(quote(nChange, nBlocks, Nowhere, 0, fault)) :
            out' = quote(nChange, nBlocks, failAt, badText, fault)
    /\ call' = Call("quote", "", "", 0, <<>>)
    /\ UNCHANGED <<session, timeout, delay, browser, nav, main>>

DownloadPositions ==
    /\ Idle
    /\ \E failAt \in FailPoints(download_positions(Nowhere)) :
         out' = download_positions(failAt)
    /\ call' = Call("download_positions", "", "", 0, <<>>)
    /\ UNCHANGED <<session, timeout, delay, browser, nav, main>>

MarketOrder ==
    /\ Idle
    /\ \E action \in ActionValues, unit \in UnitValues, r1 \in Responses :
         \E r2 \in SecondResponses(r1) :
         \E failAt \in FailPoints(market_order(action, unit, Nowhere, <<>>, <<>>)) :
            /\ out' = market_order(action, unit, failAt, r1, r2)
            /\ call' = Call("market_order", action, unit, 0, <<>>)
    /\ UNCHANGED <<session, timeout, delay, browser, nav, main>>

LimitOrder ==
    /\ Idle
    /\ \E action \in ActionValues, unit \in UnitValues, limit \in LimitArgs, r1 \in Responses :
         \E r2 \in SecondResponses(r1) :
         \E failAt \in FailPoints(limit_order(action, unit, limit, Nowhere, <<>>, <<>>)) :
            /\ out' = limit_order(action, unit, limit, failAt, r1, r2)
            /\ call' = Call("limit_order", action, unit, 0, limit)
    /\ UNCHANGED <<session, timeout, delay, browser, nav, main>>

MarketableLimitOrder ==
    /\ Idle
    /\ \E action \in ActionValues, unit \in UnitValues, buffer \in -1..MaxBuffer,
          texts \in NumberTexts, r1 \in Responses :
         \E r2 \in SecondResponses(r1) :
         \E failAt \in FailPoints(marketable_limit_order(action, unit, buffer, texts,
                                                        Nowhere, <<>>, <<>>)) :
            /\ out' = marketable_limit_order(action, unit, buffer, texts, failAt, r1, r2)
            /\ call' = Call("marketable_limit_order", action, unit, buffer, <<>>)
    /\ UNCHANGED <<session, timeout, delay, browser, nav, main>>

GtcOrder ==
    /\ Idle
    /\ \E action \in ActionValues, limit \in LimitArgs, r1 \in Responses :
         \E r2 \in SecondResponses(r1) :
         \E failAt \in FailPoints(gtc_order(action, limit, Nowhere, <<>>, <<>>)) :
            /\ out' = gtc_order(action, limit, failAt, r1, r2)
            /\ call' = Call("gtc_order", action, "", 0, limit)
    /\ UNCHANGED <<session, timeout, delay, browser, nav, main>>

BuyMutualFund ==
    /\ Idle
    /\ \E nButtons \in 0..1, items \in DropdownItems, r1 \in Responses :
         \E r2 \in SecondResponses(r1) :
         \E failAt \in FailPoints(buy_mutual_fund(nButtons, items, Nowhere, <<>>, <<>>)) :
            out' = buy_mutual_fund(nButtons, items, failAt, r1, r2)
    /\ call' = Call("buy_mutual_fund", "", "", 0, <<>>)
    /\ UNCHANGED <<session, timeout, delay, browser, nav, main>>

SellMutualFund ==
    /\ Idle
    /\ \E unit \in UnitValues, nButtons \in 0..1, items \in DropdownItems, r1 \in Responses :
         \E r2 \in SecondResponses(r1) :
         \E failAt \in FailPoints(sell_mutual_fund(unit, nButtons, items, Nowhere, <<>>, <<>>)) :
            /\ out' = sell_mutual_fund(unit, nButtons, items, failAt, r1, r2)
            /\ call' = Call("sell_mutual_fund", "", unit, 0, <<>>)
    /\ UNCHANGED <<session, timeout, delay, browser, nav, main>>

ExchangeMutualFund ==
    /\ Idle
    /\ \E unit \in UnitValues, nButtons \in 0..1, items \in DropdownItems, r1 \in Responses :
         \E r2 \in SecondResponses(r1) :
         \E failAt \in FailPoints(exchange_mutual_fund(unit, nButtons, items, Nowhere, <<>>, <<>>)) :
            /\ out' = exchange_mutual_fund(unit, nButtons, items, failAt, r1, r2)
            /\ call' = Call("exchange_mutual_fund", "", unit, 0, <<>>)
    /\ UNCHANGED <<session, timeout, delay, browser, nav, main>>

\* The caller has taken the result of its last call and goes on: the Driver keeps
\* nothing of a finished call, so the next call starts from the same Driver state.
Continue ==
    /\ Usable
    /\ call # NoCall
    /\ call' = NoCall
    /\ out' = NoResult
    /\ UNCHANGED <<session, timeout, delay, browser, nav, main>>

Next ==
    \/ Construct
    \/ Continue
    \/ Enter
    \/ Exit
    \/ CashAvailableToTrade
    \/ GetQuote
    \/ DownloadPositions
    \/ MarketOrder
    \/ LimitOrder
    \/ MarketableLimitOrder
    \/ GtcOrder
    \/ BuyMutualFund
    \/ SellMutualFund
    \/ ExchangeMutualFund

Spec == Init /\ [][Next]_vars

-----------------------------------------------------------------------------
(* The script runner, src/src/main.py.  A script is modelled by what it     *)
(* does when exec() runs it: "" (the empty script) does nothing, "quote"    *)
(* calls driver.quote, "order" calls driver.market_order with a valid       *)
(* action and unit, "raise" raises an Exception of its own (a SyntaxError   *)
(* or a failing statement), "exit" raises SystemExit (sys.exit()), which    *)
(* is no Exception.                                                         *)

MaxPrompts == 3        \* input() prompts of one run of the runner
DefaultTimeout == 10   \* Driver(driver, timeout=10, ...)
DefaultDelay == 10     \* Driver(driver, ..., delay=1.0), in tenths of a second

\* The files of ./scripts and what each does when it is run.
ScriptFiles == {"quote.py", "order.py", "broken.py", "exit.py"}

ScriptText(name) ==
    CASE name = "quote.py" -> "quote"
      [] name = "order.py" -> "order"
      [] name = "broken.py" -> "raise"
      [] name = "exit.py" -> "exit"

\* What the user may type at the runner's prompt.
UserInputs == ScriptFiles \cup {"missing.py", "stop"}

\* script = ""; try: open(...).read()  except Exception: print(...)
\* readable: whether open() and read() succeed on an existing file
LoadScript(name, readable) ==
    IF name \in ScriptFiles /\ readable
    THEN [script |-> ScriptText(name), loaded |-> TRUE, printed |-> <<>>]
    ELSE [script |-> "", loaded |-> FALSE, printed |-> <<"Failed to load script">>]

\* What exec(script, {"driver": driver, "sleep": sleep}) can do: the Driver call
\* it made (if any), its result, and the exception that left exec().
ExecOutcomes(script) ==
    CASE script = "quote" ->
           { [ call |-> Call("quote", "", "", 0, <<>>),
               out |-> quote(nChange, nBlocks, failAt, badText, fault),
               raised |-> quote(nChange, nBlocks, failAt, badText, fault).exc ] :
               nChange \in 1..2, nBlocks \in {2}, badText \in {0, 2, 5},
               fault \in {"split"}, failAt \in FailPoints(quote(2, 2, Nowhere, 0, "split")) }
      [] script = "order" ->
           { [ call |-> Call("market_order", "BUY", "SHARES", 0, <<>>),
               out |-> market_order("BUY", "SHARES", failAt, r1, r2),
               raised |-> market_order("BUY", "SHARES", failAt, r1, r2).exc ] :
               r1 \in Responses, r2 \in Responses,
               failAt \in FailPoints(market_order("BUY", "SHARES", Nowhere, <<>>, <<>>)) }
      [] script = "raise" ->
           { [call |-> call, out |-> out, raised |-> "RuntimeError"] }
      [] script = "exit" ->
           { [call |-> call, out |-> out, raised |-> "SystemExit"] }
      [] OTHER ->
           { [call |-> call, out |-> out, raised |-> NoException] }

MainInit ==
    /\ main = [NoMain EXCEPT !.pc = "start"]
    /\ session = "none"
    /\ timeout = 0
    /\ delay = 0
    /\ browser = "open"
    /\ nav = <<>>
    /\ call = NoCall
    /\ out = NoResult

\* with Driver(browser) as driver:   (Driver.__init__ with its defaults, __enter__)
OpenSession ==
    /\ main.pc = "start"
    /\ session = "none"
    /\ timeout' = DefaultTimeout
    /\ delay' = DefaultDelay
    /\ IF __init__(DefaultTimeout, DefaultDelay) # NoException
       THEN /\ out' = ArgumentError(__init__(DefaultTimeout, DefaultDelay))
            /\ call' = Call("__init__", "", "", 0, <<>>)
            /\ main' = [main EXCEPT !.pc = "ended", !.error = out'.exc]
            /\ UNCHANGED <<session, nav>>
       ELSE \E failAt \in FailPoints(__enter__(Nowhere)) :
               /\ out' = __enter__(failAt)
               /\ call' = Call("__enter__", "", "", 0, <<>>)
               /\ nav' = out'.ev
               /\ session' = IF out'.exc = NoException THEN "entered" ELSE "built"
               /\ main' = IF out'.exc = NoException
                          THEN [main EXCEPT !.pc = "prompt"]
                          ELSE [main EXCEPT !.pc = "ended", !.error = out'.exc]
    /\ UNCHANGED browser

\* userInput = input(...) and the test of the while loop; input() raises EOFError
\* at the end of its input and KeyboardInterrupt when the user interrupts it.
Prompt ==
    /\ main.pc = "prompt"
    /\ main.prompts < MaxPrompts
    /\ \E typed \in UserInputs, raised \in {NoException} \cup ExceptionsOf("input") :
         main' = IF raised # NoException
                 THEN [main EXCEPT !.prompts = @ + 1, !.pc = "leaving", !.error = raised]
                 ELSE [main EXCEPT !.prompts = @ + 1, !.userInput = typed,
                                   !.pc = IF typed = "stop" THEN "leaving" ELSE "body"]
    /\ UNCHANGED <<session, timeout, delay, browser, nav, call, out>>

\* One pass through the body of the while loop, up to the next prompt.
RunScript ==
    /\ main.pc = "body"
    /\ \E readable \in BOOLEAN :
         LET l == LoadScript(main.userInput, readable)
         IN  \E x \in ExecOutcomes(l.script) :
                /\ call' = x.call
                /\ out' = x.out
                /\ main' =
                     [main EXCEPT
                        !.script = l.script,
                        !.loaded = l.loaded,
                        !.executed = l.script,
                        !.printed =
                            IF x.raised # NoException /\ x.raised \notin NotAnException
                            THEN Append(l.printed, "Exception occurred while running script")
                            ELSE l.printed,
                        !.error = IF x.raised \in NotAnException THEN x.raised ELSE NoException,
                        !.pc = IF x.raised \in NotAnException THEN "leaving" ELSE "prompt"]
    /\ UNCHANGED <<session, timeout, delay, browser, nav>>

\* The with block is left, after "stop" or by an exception: Driver.__exit__ runs.
LeaveScope ==
    /\ main.pc = "leaving"
    /\ \E failAt \in FailPoints(__exit__(Nowhere)) :
         /\ out' = __exit__(failAt)
         /\ call' = [Call("__exit__", "", "", 0, <<>>) EXCEPT
                        !.bodyRaised = main.error # NoException]
         /\ nav' = nav \o out'.ev
         /\ browser' = IF <<"quit", "driver", "ok">> \in {out'.ev[i] : i \in DOMAIN out'.ev}
                       THEN "closed" ELSE browser
         /\ main' = [main EXCEPT !.pc = "ended",
                                 !.error = IF out'.exc # NoException THEN out'.exc ELSE @]
    /\ session' = "exited"
    /\ UNCHANGED <<timeout, delay>>

MainNext ==
    \/ OpenSession
    \/ Prompt
    \/ RunScript
    \/ LeaveScope

MainSpec == MainInit /\ [][MainNext]_vars

-----------------------------------------------------------------------------
(* Vocabulary of the properties. *)

OrderMethods ==
    { "market_order", "limit_order", "marketable_limit_order", "gtc_order",
      "buy_mutual_fund", "sell_mutual_fund", "exchange_mutual_fund" }

ReadMethods == {"cash_available_to_trade", "quote", "download_positions"}

MutualFundMethods == {"buy_mutual_fund", "sell_mutual_fund", "exchange_mutual_fund"}

\* The last call was an order method, and it has ended.
OrderCallEnded == call.method \in OrderMethods

\* Positions of the completed interactions <<op, target>> in the last call.
Positions(op, target) == {i \in DOMAIN out.ev : out.ev[i] = <<op, target, "ok">>}

PreviewClicked == Positions("click", "previewOrderBtn") # {}

PlaceClicked == Positions("click", "placeOrderBtn") # {}

\* An answer to a [Y/n] prompt that is empty or is the letter y in either case.
Affirmative(response) == response \in { <<>>, <<"y">>, <<"Y">> }

\* The arguments of the last call that the method checks are acceptable.
ArgumentsValid ==
    /\ call.action \in {"", "BUY", "SELL"}
    /\ call.unit \in {"", "SHARES", "DOLLARS"}
    /\ call.buffer >= 0

-----------------------------------------------------------------------------
(* C1 as stated: no call of an order method ends by propagating an          *)
(* exception to the caller, whatever its arguments.                         *)
C1_NeverPropagates == OrderCallEnded => out.exc = NoException

\* An interaction of the last call raised.
StepRaised == \E i \in DOMAIN out.ev : out.ev[i][3] = "raised"

(* C1 amended: an order method called with acceptable arguments never       *)
(* propagates an exception of class Exception: such a failure inside the    *)
(* call is logged and the call returns False.  What the call propagates is  *)
(* an interruption (KeyboardInterrupt, SystemExit), which it neither logs   *)
(* nor turns into a value.  Called with an action, unit or buffer it        *)
(* rejects, it raises ValueError to the caller.                             *)
C1_FailureBecomesFalse ==
    OrderCallEnded =>
        /\ ArgumentsValid =>
             /\ out.exc \in {NoException} \cup NotAnException
             /\ out.exc = NoException => out.ret \in {"True", "False"}
             /\ out.caught # NoException => out.ret = "False" /\ out.logged # ""
             /\ (StepRaised /\ out.exc = NoException) =>
                  out.caught # NoException /\ out.ret = "False"
             /\ out.exc \in NotAnException =>
                  out.ret = "" /\ out.logged = "" /\ out.caught = NoException
        /\ ~ArgumentsValid => out.exc = "ValueError" /\ out.ret = ""

\* An order call in which a step failed and that returned False.
C1_Witness ==
    /\ call.method = "marketable_limit_order"
    /\ ArgumentsValid
    /\ out.caught = "RuntimeError"
    /\ out.ret = "False"

\* The last call clicked both buttons and got an affirmative answer at both
\* prompts, and no step of it failed.
ConfirmedTwice ==
    /\ out.caught = NoException
    /\ out.exc = NoException
    /\ PreviewClicked
    /\ PlaceClicked
    /\ Len(out.resp) = 2
    /\ Affirmative(out.resp[1])
    /\ Affirmative(out.resp[2])

(* C2 as stated: an order method returns True exactly when no step of the   *)
(* call failed, both buttons were clicked and both prompts were answered    *)
(* affirmatively; in every other outcome of a call it returns False.        *)
C2_TrueElseFalse ==
    OrderCallEnded =>
        /\ out.ret = "True" <=> ConfirmedTwice
        /\ ~ConfirmedTwice => out.ret = "False"

(* C2 amended: an order method returns True exactly when no step of the     *)
(* call failed, the preview-order button was clicked, the "Place order"     *)
(* prompt was answered affirmatively, the place-order button was clicked    *)
(* and the "Success" prompt was answered affirmatively (affirmative: empty, *)
(* "y" or "Y"); a call that returns anything else returns False; and a call *)
(* that does not return raises ValueError, its arguments being rejected, or *)
(* is ended by an interruption (KeyboardInterrupt, SystemExit) when they    *)
(* are accepted, and has no return value.                                   *)
C2_TrueIffConfirmedTwice ==
    OrderCallEnded =>
        /\ out.ret = "True" <=> ConfirmedTwice
        /\ (out.exc = NoException /\ out.ret # "True") => out.ret = "False"
        /\ out.exc # NoException =>
             /\ out.ret = ""
             /\ ~ArgumentsValid => out.exc = "ValueError"
             /\ ArgumentsValid => out.exc \in NotAnException

\* Both buttons clicked, first prompt confirmed, and "yes" typed at the second.
C2_Witness ==
    /\ OrderCallEnded
    /\ PreviewClicked
    /\ PlaceClicked
    /\ out.resp = << <<"Y">>, <<"y", "e", "s">> >>
    /\ out.ret = "False"

(* C3: the place-order button is clicked only after the preview-order       *)
(* button was clicked and the "Place order" prompt was then answered        *)
(* affirmatively, in the same call; when that prompt is declined the        *)
(* place-order button is not clicked, the "Success" prompt is not shown and *)
(* the call returns False.                                                  *)
C3_PlaceOnlyAfterConfirmation ==
    OrderCallEnded =>
        /\ \A i \in DOMAIN out.ev :
             out.ev[i][1] = "click" /\ out.ev[i][2] = "placeOrderBtn" =>
                /\ \E j \in Positions("click", "previewOrderBtn"),
                      k \in Positions("input", "Place order") : j < k /\ k < i
                /\ Len(out.resp) >= 1
                /\ Affirmative(out.resp[1])
        /\ (Len(out.resp) >= 1 /\ ~Affirmative(out.resp[1])) =>
             /\ \A i \in DOMAIN out.ev :
                  /\ out.ev[i][2] # "placeOrderBtn"
                  /\ out.ev[i][2] # "Success"
             /\ out.ret = "False"

\* The order was previewed and the user declined it.
C3_Witness ==
    /\ OrderCallEnded
    /\ PreviewClicked
    /\ out.resp = << <<"n">> >>
    /\ out.ret = "False"

(* C4 as stated: a with statement loads the login URL on entry, and         *)
(* whenever its scope has been exited the logout URL was requested and      *)
(* then quit() was called on the browser.                                   *)
C4_ReleasedOnEveryExit ==
    /\ session \in {"entered", "exited"} =>
         Len(nav) >= 1 /\ nav[1] = <<"get", "LOGIN_URL", "ok">>
    /\ session = "exited" =>
         \E i, j \in DOMAIN nav :
            /\ i < j
            /\ nav[i][1] = "get" /\ nav[i][2] = "LOGOUT_URL"
            /\ nav[j][1] = "quit"

(* C5: when a step of a read method fails, the failure is logged and the   *)
(* exception raised by the step is the one the caller gets; the method      *)
(* returns no value, attempts nothing after the failed step and attempts    *)
(* no interaction twice.  (A failure is an exception of class Exception; a  *)
(* step that the user interrupts ends the call in the same way, with        *)
(* KeyboardInterrupt, but nothing is logged then.)                          *)
C5_ReadFailurePropagates ==
    call.method \in ReadMethods =>
        /\ out.caught # NoException =>
             /\ out.exc = out.caught
             /\ out.logged # ""
             /\ out.ret = ""
        /\ (out.exc # NoException /\ out.exc \notin NotAnException) =>
             out.caught = out.exc
        /\ \A i \in DOMAIN out.ev :
             out.ev[i][3] = "raised" =>
                /\ i = Len(out.ev)
                /\ out.exc # NoException
                /\ out.ret = ""
        /\ \A i, j \in DOMAIN out.ev :
             i < j => <<out.ev[i][1], out.ev[i][2]>> # <<out.ev[j][1], out.ev[j][2]>>
        /\ out.exc = NoException => out.ret \in {"Decimal", "Quote", "None"}

\* quote() found fewer elements than it indexes.
C5_Witness ==
    /\ call.method = "quote"
    /\ out.exc = "IndexError"
    /\ out.logged = "quote information cannot be found"
    /\ Len(out.ev) > 10

\* limitText = priceText + deltaCents / 100, as decimal numbers
ExactSum(limitText, priceText, deltaCents) ==
    LET l == _decimal(limitText)
        p == _decimal(priceText)
        m == IF l.places > p.places THEN l.places ELSE p.places
        places == IF m > 2 THEN m ELSE 2
    IN  l.coef * Pow10(places - l.places)
          = p.coef * Pow10(places - p.places) + deltaCents * Pow10(places - 2)

(* C6 as stated: marketable_limit_order with a nonnegative buffer types as  *)
(* limit price exactly the displayed ask plus the buffer (BUY) or exactly   *)
(* the displayed bid minus the buffer (SELL), whatever the displayed prices *)
(* are; and when the page does not yield exactly two bid/ask numbers it     *)
(* returns False without clicking the preview-order button.                 *)
C6_LimitIsExact ==
    (call.method = "marketable_limit_order" /\ ArgumentsValid) =>
        /\ out.limit # <<>> =>
             /\ Len(out.shown) = 2
             /\ call.action = "BUY" => ExactSum(out.limit, out.shown[2], call.buffer)
             /\ call.action = "SELL" => ExactSum(out.limit, out.shown[1], -call.buffer)
        /\ PreviewClicked => out.limit # <<>>
        /\ out.caught = "RuntimeError" => out.ret = "False" /\ ~PreviewClicked

(* C7: a Driver exists only with a positive timeout and a nonnegative      *)
(* delay: construction with timeout <= 0 or delay < 0 raises ValueError and *)
(* yields no Driver.                                                        *)
C7_DriverHasValidTimes ==
    /\ session # "none" => timeout > 0 /\ delay >= 0
    /\ (call.method = "__init__" /\ (timeout <= 0 \/ delay < 0)) =>
         out.exc = "ValueError" /\ session = "none"
    /\ (call.method = "__init__" /\ timeout > 0 /\ delay >= 0) =>
         out.exc = NoException /\ session = "built"

\* Construction with timeout 0 was refused.
C7_Witness ==
    /\ call.method = "__init__"
    /\ timeout = 0
    /\ delay >= 0
    /\ out.exc = "ValueError"
    /\ session = "none"

(* C8: an order method called with an action that is neither BUY nor SELL, *)
(* a unit that is neither SHARES nor DOLLARS, or a negative buffer raises   *)
(* ValueError without any interaction: no page load, no field write, no     *)
(* click and no prompt in that call.                                        *)
C8_RejectedBeforeAnyInteraction ==
    (OrderCallEnded /\ (call.action = "OTHER" \/ call.unit = "OTHER" \/ call.buffer < 0)) =>
        /\ out.exc = "ValueError"
        /\ out.ev = <<>>
        /\ out.resp = <<>>
        /\ out.limit = <<>>
        /\ out.logged = ""

\* sell_mutual_fund refused a unit.
C8_Witness ==
    /\ call.method = "sell_mutual_fund"
    /\ call.unit = "OTHER"
    /\ out.exc = "ValueError"
    /\ out.ev = <<>>

\* The part of an order ticket an interaction belongs to, by its target:
\* 1 account, 2 symbol, 3 action, 4 unit, 5 quantity, 6 price / time in force /
\* fund to buy, 7 preview, 8 first prompt, 9 place, 10 second prompt.
Stage(e) ==
    CASE e[2] \in {"TRADE_STOCK_URL?ACCOUNT", "TRADE_MUTUAL_FUND_URL?ACCOUNT"} -> 1
      [] e[2] \in {"eq-ticket-dest-symbol", "mf-ticket-dest-symbol-Symbol"} -> 2
      [] e[2] \in {"action-buy", "action-sell", "mf-ticket__action-dropdown",
                   "mf-dropdownlist-button", "dropdownlist_items",
                   "dropdownlist_items--item", "Buy", "Sell", "Exchange"} -> 3
      [] e[2] \in {"quantity-type-shares", "quantity-type-dollars",
                   "action-shares", "action-dollar"} -> 4
      [] e[2] \in {"eqt-shared-quantity", "mf-shared-quantity"} -> 5
      [] e[2] \in {"market-yes", "market-no", "eqt-ordsel-limit-price-field", "action-gtc",
                   "eq-ticket__quote--blocks-container", "number",
                   "mf-ticket-dest-symbol-Fund to Buy"} -> 6
      [] e[2] = "previewOrderBtn" -> 7
      [] e[2] = "Place order" -> 8
      [] e[2] = "placeOrderBtn" -> 9
      [] e[2] = "Success" -> 10
      [] OTHER -> 0

\* The parts of the ticket a method fills in before it previews the order.
FieldStages(method) ==
    CASE method = "buy_mutual_fund" -> {1, 2, 3, 5}
      [] method = "sell_mutual_fund" -> {1, 2, 3, 4, 5}
      [] OTHER -> {1, 2, 3, 4, 5, 6}

Clicks(target) ==
    {i \in DOMAIN out.ev : out.ev[i][1] = "click" /\ out.ev[i][2] = target}

(* C9: the interactions of an order call form one fixed sequence without    *)
(* retry: the account page is loaded first, the ticket is filled in the     *)
(* order symbol, action, unit, quantity, price/time in force, the preview   *)
(* button is approached only after every part the method fills in was       *)
(* completed without error, preview and place are each clicked at most      *)
(* once, and nothing is attempted after the first interaction that raises.  *)
C9_OneFixedSequence ==
    OrderCallEnded =>
        /\ out.ev # <<>> => out.ev[1][1] = "get" /\ Stage(out.ev[1]) = 1
        /\ \A i \in DOMAIN out.ev : Stage(out.ev[i]) # 0
        /\ \A i, j \in DOMAIN out.ev : i < j => Stage(out.ev[i]) <= Stage(out.ev[j])
        /\ \A i \in DOMAIN out.ev :
             Stage(out.ev[i]) >= 7 =>
                /\ \A j \in 1..(i - 1) : out.ev[j][3] = "ok"
                /\ FieldStages(call.method) \subseteq {Stage(out.ev[j]) : j \in 1..(i - 1)}
        /\ Cardinality(Clicks("previewOrderBtn")) <= 1
        /\ Cardinality(Clicks("placeOrderBtn")) <= 1
        /\ \A i \in DOMAIN out.ev : out.ev[i][3] = "raised" => i = Len(out.ev)
        /\ (\E i \in DOMAIN out.ev : out.ev[i][3] = "raised") =>
             out.ret = "False" \/ out.exc \in NotAnException

\* gtc_order failed while setting the limit price or the time in force.
C9_Witness ==
    /\ call.method = "gtc_order"
    /\ out.ev # <<>>
    /\ out.ev[Len(out.ev)][3] = "raised"
    /\ Stage(out.ev[Len(out.ev)]) = 6
    /\ ~PreviewClicked
    /\ out.ret = "False"

\* The dropdown entry a mutual fund method asks for.
RequestedItem(method) ==
    CASE method = "buy_mutual_fund" -> "Buy"
      [] method = "sell_mutual_fund" -> "Sell"
      [] OTHER -> "Exchange"

(* C10 as stated: in buy_mutual_fund, sell_mutual_fund and                  *)
(* exchange_mutual_fund the preview-order button is clicked only if the     *)
(* requested action was selected in the action dropdown during that call.   *)
C10_PreviewOnlyIfSelected ==
    (call.method \in MutualFundMethods /\ PreviewClicked) =>
        out.selected = RequestedItem(call.method)

\* The runner has left its with block after the user typed 'stop'.
EndedAfterStop ==
    /\ main.pc = "ended"
    /\ main.userInput = "stop"

(* C11 as stated: the script runner leaves its loop only when the user      *)
(* entered 'stop'; a name whose file could not be loaded ran no script      *)
(* code (the script loaded before it is not run again) and the runner       *)
(* prompts again after a script that could not be loaded or that raised an  *)
(* Exception; and once the loop has ended after 'stop' the Driver session   *)
(* is released: the logout URL was requested and then quit() was called on  *)
(* the browser, which is closed.                                            *)
C11_LoopUntilStopThenReleased ==
    /\ (main.pc = "leaving" /\ main.error = NoException) => main.userInput = "stop"
    /\ (main.pc # "off" /\ ~main.loaded) => main.executed = ""
    /\ (main.pc = "prompt" /\ main.printed # <<>>) => main.error = NoException
    /\ EndedAfterStop =>
         /\ browser = "closed"
         /\ \E i, j \in DOMAIN nav :
               /\ i < j
               /\ nav[i] = <<"get", "LOGOUT_URL", "ok">>
               /\ nav[j] = <<"quit", "driver", "ok">>

====
